---- MODULE Spec2Model ----
(***************************************************************************)
(* Model of the statistical transformation pipeline of the metabolomics   *)
(* dashboard (layout/utilities_figure.py, layout/utilities_download.py,   *)
(* layout/callbacks/callbacks_lingress.py).                                *)
(*                                                                         *)
(* Every pipeline component is a function over tables.  A behaviour of a   *)
(* component's specification is one call: Init draws the arguments from a  *)
(* bounded set, the component's action applies the function as the code    *)
(* computes it and stores the returned value.                              *)
(*                                                                         *)
(*   args    the arguments of the call                                     *)
(*   result  the value the call returned (<<>> before the call)            *)
(*   pc      the name of the component still to be called, or "done"       *)
(***************************************************************************)
EXTENDS Integers, Sequences, FiniteSets, TLC

VARIABLES args, result, pc

vars == <<args, result, pc>>

(***************************************************************************)
(* Bounds of the model.                                                    *)
(***************************************************************************)
MaxRows == 2        \* rows of a table handed to a component
MaxPvalues == 3     \* entries of a list of p-values
MaxReps == 3        \* replicates of a sample group
MaxRatioRows == 4   \* rows of a table handed to compile_met_pool_ratio_data
MaxRatios == 2      \* entries of a ratio list
MaxRefRows == 3     \* rows of the reference mapping
MaxFold == 3        \* largest |log2FC| of a volcano point
MaxLogP == 5        \* largest -log10 p of a volcano point
MaxSelections == 2  \* rows of comparison dropdowns
MaxSteps == 3       \* updates of a session
MaxSessionSelections == 1  \* rows of comparison dropdowns in a session
MaxSigRows == 2     \* rows of a table given to generate_group_significance
MaxCols == 3        \* headers of a sheet after its first column
MaxVariables == 2   \* rows of the external-variable table of a download
MaxVolcanoEvents == 4 \* events on the volcano plot
MaxUploads == 4 \* uploads in one session

\* the call of component fn has returned
Returned(fn) == pc = "done" /\ args.fn = fn

(***************************************************************************)
(* Generic helpers.                                                        *)
(***************************************************************************)
Range(s) == {s[i] : i \in 1..Len(s)}

SeqsUpTo(S, n) == UNION {[1..k -> S] : k \in 0..n}

RECURSIVE GCD(_, _)
GCD(a, b) == IF b = 0 THEN a ELSE GCD(b, a % b)

RECURSIVE Concat(_)
Concat(ss) == IF ss = <<>> THEN <<>> ELSE Head(ss) \o Concat(Tail(ss))

(***************************************************************************)
(* Floating point cells.  A cell is the fraction n/d in lowest terms;     *)
(* d = 0 stands for the IEEE values the division of the code produces:     *)
(* 1/0 is +inf and 0/0 is NaN.  All cells of the model are non-negative.   *)
(***************************************************************************)
Rat(n, d) ==
    IF d = 0 THEN [n |-> IF n = 0 THEN 0 ELSE 1, d |-> 0]
    ELSE LET g == GCD(n, d) IN [n |-> n \div g, d |-> d \div g]

FromInt(v) == [n |-> v, d |-> 1]

IsNaN(x) == x.d = 0 /\ x.n = 0
IsInf(x) == x.d = 0 /\ x.n # 0
IsFinite(x) == x.d # 0

\* x / y as numpy and pandas divide floats: x/0 = inf, 0/0 = NaN, no exception
RatDiv(x, y) == Rat(x.n * y.d, x.d * y.n)

(***************************************************************************)
(* Sample groups: an ordered mapping group name -> list of sample columns, *)
(* or the marker 'all'.                                                    *)
(***************************************************************************)
Samples == {"s1", "s2"}
SampleCols == <<"s1", "s2">>

GroupsAll == [all |-> TRUE, groups |-> <<>>]
Groups(gs) == [all |-> FALSE, groups |-> gs]

\* [sample for group_samples in grouped_samples.values() for sample in group_samples]
FlattenSamples(groups) == Concat([i \in 1..Len(groups) |-> groups[i].samples])

(***************************************************************************)
(* normalize_met_pool_data                                                 *)
(***************************************************************************)
Compounds == {"glucose", "lactate", "std"}
PoolVals == {0, 1, 2}

PoolRow == [Compound : Compounds, vals : [Samples -> PoolVals]]
PoolTables == {[columns |-> SampleCols, rows |-> rs] : rs \in SeqsUpTo(PoolRow, MaxRows)}

NormGroupChoices ==
    { GroupsAll,
      Groups(<<[name |-> "A", samples |-> <<"s1">>], [name |-> "B", samples |-> <<"s2">>]>>),
      Groups(<<[name |-> "B", samples |-> <<"s2">>], [name |-> "A", samples |-> <<"s1">>]>>),
      Groups(<<[name |-> "A", samples |-> <<"s2">>]>>) }

NormLists == {{}, {"std"}, {"std", "lactate"}}

\* a slip a maintainer could make: the column sum instead of the product
RECURSIVE ColumnSum(_, _)
ColumnSum(rows, c) ==
    IF rows = <<>> THEN 0 ELSE Head(rows).vals[c] + ColumnSum(Tail(rows), c)

\* df.set_index('Compound').prod() of one column: the product over the rows,
\* 1 for no rows
RECURSIVE ColumnProd(_, _)
ColumnProd(rows, c) ==
    IF rows = <<>> THEN 1 ELSE Head(rows).vals[c] * ColumnProd(Tail(rows), c)

AllSamples(df_pool, grouped_samples) ==
    IF grouped_samples.all THEN df_pool.columns
    ELSE FlattenSamples(grouped_samples.groups)

\* a slip: one factor for the whole table, the product of the normalization
\* rows over all the selected columns
normalize_by_table_product(df_pool, grouped_samples, normalization_list) ==
    LET all_samples == AllSamples(df_pool, grouped_samples)
        InList(r) == r.Compound \in normalization_list
        df_pool_normalization == SelectSeq(df_pool.rows, InList)
        prod[k \in 0..Len(all_samples)] ==
            IF k = 0 THEN 1
            ELSE prod[k - 1] * ColumnProd(df_pool_normalization, all_samples[k])
        factor == FromInt(prod[Len(all_samples)])
        divided == [i \in 1..Len(df_pool.rows) |->
                      [Compound |-> df_pool.rows[i].Compound,
                       vals |-> [c \in Range(all_samples) |->
                                   RatDiv(FromInt(df_pool.rows[i].vals[c]), factor)]]]
        NotInList(r) == ~InList(r)
    IN  [columns |-> all_samples, rows |-> SelectSeq(divided, NotInList)]

normalize_met_pool_data(df_pool, grouped_samples, normalization_list) ==
    LET all_samples == AllSamples(df_pool, grouped_samples)
        InList(r) == r.Compound \in normalization_list
        df_pool_normalization == SelectSeq(df_pool.rows, InList)
        factor(c) == FromInt(ColumnProd(df_pool_normalization, c))
        divided == [i \in 1..Len(df_pool.rows) |->
                      [Compound |-> df_pool.rows[i].Compound,
                       vals |-> [c \in Range(all_samples) |->
                                   RatDiv(FromInt(df_pool.rows[i].vals[c]), factor(c))]]]
        NotInList(r) == ~InList(r)
    IN  [columns |-> all_samples, rows |-> SelectSeq(divided, NotInList)]

InitNormalize ==
    /\ args \in [fn : {"normalize_met_pool_data"},
                 df_pool : PoolTables,
                 grouped_samples : NormGroupChoices,
                 normalization_list : NormLists]
    /\ result = <<>>
    /\ pc = "normalize"

Normalize ==
    /\ pc = "normalize"
    /\ result' = normalize_met_pool_data(args.df_pool, args.grouped_samples,
                                         args.normalization_list)
    /\ pc' = "done"
    /\ UNCHANGED args

SpecNormalize == InitNormalize /\ [][Normalize]_vars

\* indices of the rows of a table that satisfy Keep, in row order
IndicesWhere(rows, Keep(_)) ==
    LET Idx == [i \in 1..Len(rows) |-> i]
        Sel(i) == Keep(rows[i])
    IN  SelectSeq(Idx, Sel)

\* P(c): the product of table[n][c] over the rows n whose compound is in N
NormProduct(rows, N, c) ==
    LET p[i \in 0..Len(rows)] ==
            IF i = 0 THEN 1
            ELSE p[i - 1] * (IF rows[i].Compound \in N THEN rows[i].vals[c] ELSE 1)
    IN  p[Len(rows)]

HeatCompounds == {"glucose", "lactate"}
HeatVals == {0, 1, 2, 4}

HeatRow == [Compound : HeatCompounds, vals : [Samples -> HeatVals]]
HeatTables == SeqsUpTo(HeatRow, MaxRows)

HeatGroupChoices ==
    { <<[name |-> "ctrl", samples |-> <<"s1">>], [name |-> "treat", samples |-> <<"s2">>]>>,
      <<[name |-> "treat", samples |-> <<"s1">>], [name |-> "ctrl", samples |-> <<"s2">>]>>,
      <<[name |-> "ctrl", samples |-> <<"s1", "s2">>]>> }

\* grouped_samples[key]
GroupSamples(groups, key) ==
    LET i == CHOOSE i \in 1..Len(groups) : groups[i].name = key
    IN  groups[i].samples

Log2m(n) ==
    CASE n = 1 -> 0
      [] n = 2 -> 1000
      [] n = 3 -> 1585
      [] n = 4 -> 2000
      [] n = 5 -> 2322
      [] n = 6 -> 2585
      [] n = 7 -> 2807
      [] n = 8 -> 3000

\* lambda x: np.log2(x) if x != 0 else 0, for a raw cell
log2_transform(x) == IF x # 0 THEN Log2m(x) ELSE 0

RECURSIVE SumSeq(_)
SumSeq(s) == IF s = <<>> THEN 0 ELSE Head(s) + SumSeq(Tail(s))

\* a slip: the zeros counted in the mean
CtrlAvgWithZeros(row, ctrl_cols) ==
    LET cells == [i \in 1..Len(ctrl_cols) |-> row.vals[ctrl_cols[i]]]
    IN  IF SumSeq(cells) = 0 THEN <<0, 0>> ELSE <<SumSeq(cells), Len(cells)>>

\* df[ctrl_cols].replace(0, np.nan).mean(axis=1, skipna=True).fillna(0) of one
\* row, as the pair <<sum, count>> of its non-zero control cells
CtrlAvg(row, ctrl_cols) ==
    LET cells == [i \in 1..Len(ctrl_cols) |-> row.vals[ctrl_cols[i]]]
        NonZero(v) == v # 0
        kept == SelectSeq(cells, NonZero)
    IN  <<SumSeq(kept), Len(kept)>>

\* log2_transform of the ctrl_avg column: 0 for the average 0
CtrlAvgLog2(row, ctrl_cols) ==
    LET avg == CtrlAvg(row, ctrl_cols)
    IN  IF avg[2] = 0 THEN 0 ELSE Log2m(avg[1]) - Log2m(avg[2])

\* DataFrame.drop_duplicates(): the first occurrence of every distinct row
RECURSIVE DropDuplicates(_)
DropDuplicates(s) ==
    IF s = <<>> THEN <<>>
    ELSE LET init == DropDuplicates(SubSeq(s, 1, Len(s) - 1))
             last == s[Len(s)]
         IN  IF last \in Range(init) THEN init ELSE Append(init, last)

\* np.where(df[column] != 0, df[column] - df['ctrl_avg'], 0): the test reads
\* the log2-transformed cell
SubtractCtrlAvg(cell_log2, ctrl_avg) ==
    IF cell_log2 # 0 THEN cell_log2 - ctrl_avg ELSE 0

transform_log2_and_adjust_control_data(df, grouped_samples, ctrl_group) ==
    LET ctrl_cols == GroupSamples(grouped_samples, ctrl_group)
        df_ctrl_avg_log2 ==
            DropDuplicates([i \in 1..Len(df) |->
                [Compound |-> df[i].Compound,
                 ctrl_avg |-> CtrlAvgLog2(df[i], ctrl_cols)]])
        df_log2_transformed ==
            [i \in 1..Len(df) |->
                [Compound |-> df[i].Compound,
                 vals |-> [c \in Samples |-> log2_transform(df[i].vals[c])]]]
        \* merge(df_ctrl_avg_log2, on='Compound', how='left'): every left row
        \* once per right row of its compound, left order then right order
        MatchesOf(left) ==
            LET Same(r) == r.Compound = left.Compound
                right == SelectSeq(df_ctrl_avg_log2, Same)
            IN  [j \in 1..Len(right) |->
                    [Compound |-> left.Compound,
                     vals |-> [c \in Samples |->
                                 SubtractCtrlAvg(left.vals[c], right[j].ctrl_avg)]]]
    IN  Concat([i \in 1..Len(df) |-> MatchesOf(df_log2_transformed[i])])

InitLog2 ==
    /\ args \in [fn : {"transform_log2_and_adjust_control_data"},
                 df : HeatTables,
                 grouped_samples : HeatGroupChoices,
                 ctrl_group : {"ctrl"}]
    /\ result = <<>>
    /\ pc = "transform_log2"

TransformLog2 ==
    /\ pc = "transform_log2"
    /\ result' = transform_log2_and_adjust_control_data(args.df, args.grouped_samples,
                                                        args.ctrl_group)
    /\ pc' = "done"
    /\ UNCHANGED args

SpecLog2 == InitLog2 /\ [][TransformLog2]_vars

UniqueCompounds(rows) ==
    \A i, j \in 1..Len(rows) : rows[i].Compound = rows[j].Compound => i = j

\* C2: in the output of transform_log2_and_adjust_control_data (compound
\* names unique) a cell whose original value is 0 is 0, and a cell whose
\* original value v is not 0 is log2(v) minus the log2 control average of its
\* row, also for v = 1 whose log2 is 0: the original value decides.
C2_SubtractByOriginalValue ==
    (Returned("transform_log2_and_adjust_control_data") /\ UniqueCompounds(args.df)) =>
        /\ Len(result) = Len(args.df)
        /\ \A i \in 1..Len(args.df) : \A c \in Samples :
              LET v == args.df[i].vals[c]
                  ctrl == CtrlAvgLog2(args.df[i],
                                      GroupSamples(args.grouped_samples, args.ctrl_group))
              IN  result[i].vals[c] = IF v = 0 THEN 0 ELSE Log2m(v) - ctrl

(***************************************************************************)
(* apply_pvalue_correction and apply_pvalue_correction_download            *)
(*                                                                         *)
(* A p-value is a natural number of thousandths (0..1000); NaN is the      *)
(* value -1.                                                               *)
(***************************************************************************)
NaN == -1
One == 1000

PVals == {10, 40, 500, One}
Methods == {"bonferroni", "fdr_bh"}

Min(a, b) == IF a < b THEN a ELSE b

\* a slip: the Bonferroni product left uncut
multipletests_uncut(pvals, method) ==
    [k \in 1..Len(pvals) |-> pvals[k] * Len(pvals)]

\* statsmodels multipletests(pvals, alpha=0.05, method)[1] for the two methods
\* the dashboard offers.  bonferroni: p * m, cut at 1.  fdr_bh: the sorted
\* p_(j) * m / j, made monotone from the largest downwards, cut at 1; for the
\* entry p that is the least q * m / #{p' <= q} over the entries q >= p.
multipletests(pvals, method) ==
    LET m == Len(pvals)
        AtMost(q) == Cardinality({j \in 1..m : pvals[j] <= q})
        Step(q) == (q * m) \div AtMost(q)
        BH(k) == LET above == {pvals[j] : j \in {j \in 1..m : pvals[j] >= pvals[k]}}
                     best == CHOOSE q \in above : \A r \in above : Step(q) <= Step(r)
                 IN  Min(One, Step(best))
    IN  [k \in 1..m |->
            IF method = "bonferroni" THEN Min(One, pvals[k] * m) ELSE BH(k)]

\* a slip: the corrected values written back by their rank among the valid
\* entries instead of by their original index
ScatterByRank(pvalues, valid_indices, corrected_pvalues) ==
    [i \in 1..Len(pvalues) |->
        IF i <= Len(corrected_pvalues) THEN corrected_pvalues[i] ELSE NaN]

\* corrected_full = np.full_like(pvalues, np.nan);
\* for idx, corr_pval in zip(valid_indices, corrected_pvalues): corrected_full[idx] = corr_pval
Scatter(pvalues, valid_indices, corrected_pvalues) ==
    [i \in 1..Len(pvalues) |->
        IF \E k \in 1..Len(valid_indices) : valid_indices[k] = i
        THEN corrected_pvalues[CHOOSE k \in 1..Len(valid_indices) : valid_indices[k] = i]
        ELSE NaN]

\* valid_indices = [i for i, p in enumerate(pvalues) if not np.isnan(p)]
ValidIndices(pvalues) ==
    LET Idx == [i \in 1..Len(pvalues) |-> i]
        Valid(i) == pvalues[i] # NaN
    IN  SelectSeq(Idx, Valid)

apply_pvalue_correction(pvalues, correction_method) ==
    LET valid_indices == ValidIndices(pvalues)
        valid_pvalues == [k \in 1..Len(valid_indices) |-> pvalues[valid_indices[k]]]
    IN  IF valid_pvalues # <<>>
        THEN Scatter(pvalues, valid_indices, multipletests(valid_pvalues, correction_method))
        ELSE [i \in 1..Len(pvalues) |-> NaN]

apply_pvalue_correction_download(pvalues, correction_method) ==
    LET valid_indices == ValidIndices(pvalues)
        valid_pvalues == [k \in 1..Len(valid_indices) |-> pvalues[valid_indices[k]]]
    IN  IF valid_pvalues # <<>>
        THEN Scatter(pvalues, valid_indices, multipletests(valid_pvalues, correction_method))
        ELSE [i \in 1..Len(pvalues) |-> NaN]

InitCorrection ==
    /\ args \in [fn : {"apply_pvalue_correction"},
                 pvalues : SeqsUpTo(PVals \cup {NaN}, MaxPvalues),
                 correction_method : Methods]
    /\ result = <<>>
    /\ pc = "apply_pvalue_correction"

ApplyCorrection ==
    /\ pc = "apply_pvalue_correction"
    /\ result' = [path |-> "figure",
                  corrected |-> apply_pvalue_correction(args.pvalues, args.correction_method)]
    /\ pc' = "done"
    /\ UNCHANGED args

ApplyCorrectionDownload ==
    /\ pc = "apply_pvalue_correction"
    /\ result' = [path |-> "download",
                  corrected |-> apply_pvalue_correction_download(args.pvalues,
                                                                 args.correction_method)]
    /\ pc' = "done"
    /\ UNCHANGED args

SpecCorrection == InitCorrection /\ [][ApplyCorrection \/ ApplyCorrectionDownload]_vars

NaNPositions(s) == {i \in 1..Len(s) : s[i] = NaN}

\* C3: the output of apply_pvalue_correction and of
\* apply_pvalue_correction_download has the length of the input, is NaN
\* exactly at the positions where the input is NaN, and its NaN positions are
\* the same for every correction method.
C3_NaNPositionsPreserved ==
    Returned("apply_pvalue_correction") =>
        /\ Len(result.corrected) = Len(args.pvalues)
        /\ NaNPositions(result.corrected) = NaNPositions(args.pvalues)
        /\ \A method \in Methods :
              /\ NaNPositions(apply_pvalue_correction(args.pvalues, method))
                    = NaNPositions(result.corrected)
              /\ NaNPositions(apply_pvalue_correction_download(args.pvalues, method))
                    = NaNPositions(result.corrected)

\* the example of the specification: NaN at the second of three entries
C3_Witness ==
    /\ Returned("apply_pvalue_correction")
    /\ args.pvalues = <<10, NaN, 40>>
    /\ result.corrected[2] = NaN
    /\ result.corrected[1] # NaN
    /\ result.corrected[3] # NaN

(***************************************************************************)
(* The pairwise significance test and its call paths.                      *)
(*                                                                         *)
(* A replicate value is a natural number of units of 1e-5, so that the    *)
(* variance floor 1e-8 of perform_two_sided_ttest is 100 squared units and *)
(* the floor 1e-5 that perform_two_sided_ttest_download applies to the     *)
(* standard deviation is 1 unit.  Arithmetic is exact.                     *)
(***************************************************************************)
TVals == {0, 10, 30, 31}
TGroups == UNION {[1..k -> TVals] : k \in 1..MaxReps}

VarianceThreshold == 100       \* variance_threshold=1e-8, in squared units
StdThresholdDownload == 1      \* variance_threshold=1e-5, in units

RECURSIVE SumSq(_)
SumSq(s) == IF s = <<>> THEN 0 ELSE Head(s) * Head(s) + SumSq(Tail(s))

\* n^2 times the population variance np.var(s)
VarQ(s) == Len(s) * SumSq(s) - SumSeq(s) * SumSeq(s)

\* np.var(s) > threshold
VarAbove(s, threshold) == VarQ(s) > threshold * Len(s) * Len(s)

\* np.std(s) < threshold
StdBelow(s, threshold) == VarQ(s) < threshold * threshold * Len(s) * Len(s)

\* data[data != 0]
NonZero(s) == LET Keep(v) == v # 0 IN SelectSeq(s, Keep)

\* scipy.stats.ttest_ind(a, b, equal_var=False, alternative='two-sided')[1]:
\* the two-sided p-value falls as the squared Welch statistic
\*   t^2 = (mean a - mean b)^2 / (var a / n_a + var b / n_b)
\* grows; it is tabulated here in five steps, 1 for equal means.
ttest_ind(a, b) ==
    LET na == Len(a)
        nb == Len(b)
        diff == SumSeq(a) * nb - SumSeq(b) * na
        num == diff * diff * (na - 1) * (nb - 1)
        den == VarQ(a) * nb * nb * (nb - 1) + VarQ(b) * na * na * (na - 1)
    IN  CASE num = 0 -> One
          [] num > 0 /\ num < den -> 500
          [] num >= den /\ num < 4 * den -> 200
          [] num >= 4 * den /\ num < 16 * den -> 40
          [] num >= 16 * den -> 10

Tested(path, a, b) ==
    [path |-> path, pvalue |-> ttest_ind(a, b), reason |-> "", tested_on |-> <<a, b>>]

NotTested(path, reason) ==
    [path |-> path, pvalue |-> NaN, reason |-> reason, tested_on |-> <<>>]

perform_two_sided_ttest(path, group_1, group_2) ==
    IF /\ Len(group_1) > 1
       /\ Len(group_2) > 1
       /\ VarAbove(group_1, VarianceThreshold)
       /\ VarAbove(group_2, VarianceThreshold)
    THEN Tested(path, group_1, group_2)
    ELSE NotTested(path, "")

\* np.all(y0_data == y1_data): arrays of different lengths do not broadcast;
\* NumPy before 1.25 answers False with a warning, later versions raise
\* ValueError.  strict tells which NumPy the build has.
ArraysEqual(a, b, strict) ==
    IF Len(a) = Len(b) THEN (IF a = b THEN "equal" ELSE "differ")
    ELSE IF strict THEN "error" ELSE "differ"

\* a slip: the identical-data guard moved before the zero-variance guard
calculate_pvalue_identical_first(y0_data, y1_data, strict) ==
    LET filtered_y0_data == NonZero(y0_data)
        filtered_y1_data == NonZero(y1_data)
        same == ArraysEqual(y0_data, y1_data, strict)
    IN  IF Len(filtered_y0_data) < 2 \/ Len(filtered_y1_data) < 2
        THEN NotTested("plot", "ins data")
        ELSE IF same = "error" THEN NotTested("plot", "ValueError")
        ELSE IF same = "equal" THEN NotTested("plot", "identical")
        ELSE IF VarQ(y0_data) = 0 \/ VarQ(y1_data) = 0
        THEN NotTested("plot", "zero var")
        ELSE perform_two_sided_ttest("plot", filtered_y0_data, filtered_y1_data)

\* the guards and the test of calculate_metabolomics_pvalue_and_display
calculate_metabolomics_pvalue(y0_data, y1_data, strict) ==
    LET filtered_y0_data == NonZero(y0_data)
        filtered_y1_data == NonZero(y1_data)
        same == ArraysEqual(y0_data, y1_data, strict)
    IN  IF Len(filtered_y0_data) < 2 \/ Len(filtered_y1_data) < 2
        THEN NotTested("plot", "ins data")
        ELSE IF VarQ(y0_data) = 0 \/ VarQ(y1_data) = 0
        THEN NotTested("plot", "zero var")
        ELSE IF same = "error" THEN NotTested("plot", "ValueError")
        ELSE IF same = "equal" THEN NotTested("plot", "identical")
        ELSE perform_two_sided_ttest("plot", filtered_y0_data, filtered_y1_data)

\* one (metabolite, comparison) step of perform_two_sided_ttest_download
ttest_download_pair(group1_data, group2_data, strict) ==
    LET same == ArraysEqual(group1_data, group2_data, strict)
    IN  IF Len(group1_data) < 2 \/ Len(group2_data) < 2
        THEN NotTested("download", "insufficient data")
        ELSE IF \/ StdBelow(group1_data, StdThresholdDownload)
                \/ StdBelow(group2_data, StdThresholdDownload)
        THEN NotTested("download", "variance < 1E-08")
        ELSE IF same = "error" THEN NotTested("download", "ValueError")
        ELSE IF same = "equal" THEN NotTested("download", "identical data")
        ELSE Tested("download", group1_data, group2_data)

\* ttest_volcano: zeros dropped, then perform_two_sided_ttest
ttest_volcano(ctrl_values, cond_values) ==
    perform_two_sided_ttest("volcano", NonZero(ctrl_values), NonZero(cond_values))

\* the test of one pair of groups in generate_group_significance
group_significance_pair(data1, data2) ==
    perform_two_sided_ttest("heatmap", NonZero(data1), NonZero(data2))

\* the test of one (row, comparison) in generate_corrected_pvalues
corrected_pvalues_pair(group1, group2) ==
    LET data_group1 == NonZero(group1)
        data_group2 == NonZero(group2)
    IN  IF data_group1 = <<>> \/ data_group2 = <<>>
        THEN NotTested("corrected", "")
        ELSE perform_two_sided_ttest("corrected", data_group1, data_group2)

InitTTest ==
    /\ args \in [fn : {"ttest"}, y0 : TGroups, y1 : TGroups]
    /\ result = <<>>
    /\ pc = "ttest"

PlotAnnotation ==
    /\ pc = "ttest"
    /\ \E strict \in BOOLEAN :
          result' = calculate_metabolomics_pvalue(args.y0, args.y1, strict)
    /\ pc' = "done"
    /\ UNCHANGED args

DownloadTTest ==
    /\ pc = "ttest"
    /\ \E strict \in BOOLEAN :
          result' = ttest_download_pair(args.y0, args.y1, strict)
    /\ pc' = "done"
    /\ UNCHANGED args

VolcanoTTest ==
    /\ pc = "ttest"
    /\ result' = ttest_volcano(args.y0, args.y1)
    /\ pc' = "done"
    /\ UNCHANGED args

GroupSignificanceTTest ==
    /\ pc = "ttest"
    /\ result' = group_significance_pair(args.y0, args.y1)
    /\ pc' = "done"
    /\ UNCHANGED args

CorrectedTTest ==
    /\ pc = "ttest"
    /\ result' = corrected_pvalues_pair(args.y0, args.y1)
    /\ pc' = "done"
    /\ UNCHANGED args

NextTTest ==
    \/ PlotAnnotation
    \/ DownloadTTest
    \/ VolcanoTTest
    \/ GroupSignificanceTTest
    \/ CorrectedTTest

SpecTTest == InitTTest /\ [][NextTTest]_vars

InsufficientReason(path) ==
    CASE path = "plot" -> "ins data"
      [] path = "download" -> "insufficient data"
      [] OTHER -> ""

\* C5: in every call path of the pairwise test the exact zeros are dropped
\* from each group before the length guard: a test that is computed is
\* computed on the zero-filtered groups, and when a zero-filtered group has
\* fewer than 2 values the result is NaN / insufficient data and no test is
\* computed.
C5_ZerosDroppedBeforeLengthGuard ==
    Returned("ttest") =>
        LET f0 == NonZero(args.y0)
            f1 == NonZero(args.y1)
        IN  /\ result.tested_on # <<>> => result.tested_on = <<f0, f1>>
            /\ (Len(f0) < 2 \/ Len(f1) < 2) =>
                  /\ result.pvalue = NaN
                  /\ result.tested_on = <<>>
                  /\ result.reason = InsufficientReason(result.path)

\* what holds of the paths other than the download path
C5_HoldsOffDownload ==
    (Returned("ttest") /\ result.path # "download") => C5_ZerosDroppedBeforeLengthGuard

IdenticalReason(path) ==
    CASE path = "plot" -> "identical"
      [] path = "download" -> "identical data"

AllEqual(s) == \A i, j \in 1..Len(s) : s[i] = s[j]

CCompounds == {"glucose", "lactate"}
CompoundOrder == <<"glucose", "lactate">>     \* sorted, as groupby sorts its keys

GNone == <<0, 0>>
GA == <<10, 31>>
GB == <<31, 60>>
GC == <<10, 60>>
CProfiles == { <<GA, GA, GB>>, <<GA, GB, GC>>, <<GNone, GA, GB>>, <<GA, GC, GA>> }

CRow == [Compound : CCompounds, C_Label : {0, 1}, vals : CProfiles]

UniqueKeys(rows) ==
    \A i, j \in 1..Len(rows) :
        (rows[i].Compound = rows[j].Compound /\ rows[i].C_Label = rows[j].C_Label) => i = j

ComparisonLists == { << <<0, 1>> >>, << <<0, 1>>, <<1, 2>> >>, << <<0, 2>>, <<0, 1>> >> }

\* dict(zip(keys, values)).get(key, NaN): a later entry replaces an earlier one
DictGet(keys, values, key) ==
    LET n == Min(Len(keys), Len(values))
        hits == {i \in 1..n : keys[i] = key}
    IN  IF hits = {} THEN NaN
        ELSE values[CHOOSE i \in hits : \A j \in hits : j <= i]

\* [x for x in xs if x is a valid p-value], by position
ValidPositions(all_p_values) ==
    LET Idx == [i \in 1..Len(all_p_values) |-> i]
        Valid(i) == all_p_values[i] # NaN /\ all_p_values[i] <= One
    IN  SelectSeq(Idx, Valid)

\* valid_pvalues, corrected_pvalues and the two lists zipped into correction_map
CorrectionMap(all_p_values, pvalue_indices, method) ==
    LET pos == ValidPositions(all_p_values)
        valid_pvalues == [k \in 1..Len(pos) |-> all_p_values[pos[k]]]
        corrected_pvalues == IF valid_pvalues # <<>>
                             THEN apply_pvalue_correction(valid_pvalues, method)
                             ELSE <<>>
    IN  [keys |-> [k \in 1..Len(pos) |-> pvalue_indices[pos[k]]],
         values |-> corrected_pvalues]

\* df.drop_duplicates(subset='Compound', keep='first')
RECURSIVE DropDuplicateCompounds(_)
DropDuplicateCompounds(rows) ==
    IF rows = <<>> THEN <<>>
    ELSE LET init == DropDuplicateCompounds(SubSeq(rows, 1, Len(rows) - 1))
             last == rows[Len(rows)]
         IN  IF \E i \in 1..Len(init) : init[i].Compound = last.Compound
             THEN init ELSE Append(init, last)

\* elementwise sum of the rows' data
RECURSIVE SumVals(_)
SumVals(rows) ==
    IF rows = <<>> THEN [g \in 1..3 |-> <<0, 0>>]
    ELSE LET rest == SumVals(Tail(rows))
         IN  [g \in 1..3 |-> <<Head(rows).vals[g][1] + rest[g][1],
                               Head(rows).vals[g][2] + rest[g][2]>>]

\* summed_df: the rows the p-values are computed on, each with its index key
SummedDf(df, graph) ==
    CASE graph = "iso" ->
            LET Labelled(r) == r.C_Label # 0
                labelled == SelectSeq(df, Labelled)
                Present(c) == \E i \in 1..Len(labelled) : labelled[i].Compound = c
                names == SelectSeq(CompoundOrder, Present)
            IN  [k \in 1..Len(names) |->
                    LET Of(r) == r.Compound = names[k]
                    IN  [key |-> <<names[k]>>, vals |-> SumVals(SelectSeq(labelled, Of))]]
      [] graph = "isodistribution" ->
            [i \in 1..Len(df) |->
                [key |-> <<df[i].Compound, df[i].C_Label>>, vals |-> df[i].vals]]
      [] graph = "pool" ->
            LET kept == DropDuplicateCompounds(df)
            IN  [i \in 1..Len(kept) |-> [key |-> <<kept[i].Compound>>, vals |-> kept[i].vals]]

generate_corrected_pvalues(df, comparisons, correction_method, graph) ==
    LET summed_df == SummedDf(df, graph)
        nrows == Len(summed_df)
        index == DropDuplicates([i \in 1..nrows |-> summed_df[i].key])
        \* comparison-major: for comp_pair in comparisons: for idx, row in summed_df.iterrows()
        At(n) == [comp |-> comparisons[((n - 1) \div nrows) + 1],
                  row |-> summed_df[((n - 1) % nrows) + 1]]
        total == Len(comparisons) * nrows
        all_p_values ==
            [n \in 1..total |->
                corrected_pvalues_pair(At(n).row.vals[At(n).comp[1] + 1],
                                       At(n).row.vals[At(n).comp[2] + 1]).pvalue]
        pvalue_indices == [n \in 1..total |-> <<At(n).row.key, At(n).comp>>]
        correction_map == CorrectionMap(all_p_values, pvalue_indices, correction_method)
    IN  IF Len(index) # nrows
        THEN \* results_df[column_name] = p_values: lengths differ
             [error |-> "ValueError", pvalues |-> <<>>, cells |-> <<>>]
        ELSE [error |-> "",
              pvalues |-> [k \in Range(pvalue_indices) |->
                              DictGet(pvalue_indices, all_p_values, k)],
              cells |-> [k \in Range(pvalue_indices) |->
                            DictGet(correction_map.keys, correction_map.values, k)]]

\* df.loc[df['Compound'] == metabolite, group_sample_names].values.flatten()
FlattenGroup(df, metabolite, g) ==
    LET Of(r) == r.Compound = metabolite
        rows == SelectSeq(df, Of)
    IN  Concat([i \in 1..Len(rows) |-> rows[i].vals[g]])

\* perform_two_sided_ttest_download followed by generate_corrected_pvalues_download
corrected_pvalues_download(df, comparisons, correction_method) ==
    LET nrows == Len(df)
        ncomp == Len(comparisons)
        \* metabolite-major: for metabolite in df['Compound']: for column_pair in pvalue_comparisons
        At(n) == [comp |-> comparisons[((n - 1) % ncomp) + 1],
                  metabolite |-> df[((n - 1) \div ncomp) + 1].Compound]
        total == ncomp * nrows
        all_p_values ==
            [n \in 1..total |->
                ttest_download_pair(FlattenGroup(df, At(n).metabolite, At(n).comp[1] + 1),
                                    FlattenGroup(df, At(n).metabolite, At(n).comp[2] + 1),
                                    FALSE).pvalue]
        pvalue_index_info == [n \in 1..total |-> <<(<<At(n).metabolite>>), At(n).comp>>]
        correction_map == CorrectionMap(all_p_values, pvalue_index_info, correction_method)
    IN  [error |-> "",
         pvalues |-> [k \in Range(pvalue_index_info) |->
                         DictGet(pvalue_index_info, all_p_values, k)],
         cells |-> [k \in Range(pvalue_index_info) |->
                       DictGet(correction_map.keys, correction_map.values, k)]]

InitCorrected ==
    /\ args \in [fn : {"generate_corrected_pvalues"},
                 df : SeqsUpTo(CRow, MaxRows),
                 comparisons : ComparisonLists,
                 correction_method : Methods,
                 graph : {"pool", "iso", "isodistribution"}]
    /\ args.graph = "pool" => \A i \in 1..Len(args.df) : args.df[i].C_Label = 0
    /\ args.graph # "pool" => UniqueKeys(args.df)
    /\ result = <<>>
    /\ pc = "generate_corrected_pvalues"

\* the caller's table after the call: df[numeric_columns] = ... rewrites the
\* numeric cells with their own values, and without a C_Label column
\* df.drop_duplicates(subset='Compound', keep='first', inplace=True) removes
\* rows from it
DfAfterCall(df, graph) ==
    IF graph = "pool" THEN DropDuplicateCompounds(df) ELSE df

GenerateCorrected ==
    /\ pc = "generate_corrected_pvalues"
    /\ result' = [path |-> "figure"] @@
                 generate_corrected_pvalues(args.df, args.comparisons,
                                            args.correction_method, args.graph)
    /\ pc' = "done"
    /\ args' = [args EXCEPT !.df = DfAfterCall(args.df, args.graph)]

GenerateCorrectedDownload ==
    /\ pc = "generate_corrected_pvalues"
    /\ args.graph = "pool"
    /\ result' = [path |-> "download"] @@
                 corrected_pvalues_download(args.df, args.comparisons,
                                            args.correction_method)
    /\ pc' = "done"
    /\ UNCHANGED args

NextCorrected == GenerateCorrected \/ GenerateCorrectedDownload

SpecCorrected == InitCorrected /\ [][NextCorrected]_vars

RECURSIVE SetToSeq(_)
SetToSeq(S) ==
    IF S = {} THEN <<>>
    ELSE LET x == CHOOSE y \in S : TRUE IN <<x>> \o SetToSeq(S \ {x})

\* The cell of every (compound, comparison) pair is the pair's own raw
\* p-value corrected within the family of the valid raw p-values of all the
\* pairs of the batch, each pair counted once; NaN where the raw value is NaN.
CellsFromOwnPair ==
    LET pairs == SetToSeq(DOMAIN result.cells)
        HasP(k) == result.pvalues[k] # NaN
        valid == SelectSeq(pairs, HasP)
        family == [i \in 1..Len(valid) |-> result.pvalues[valid[i]]]
        corrected == IF family = <<>> THEN <<>>
                     ELSE multipletests(family, args.correction_method)
    IN  \A k \in DOMAIN result.cells :
            IF result.pvalues[k] = NaN
            THEN result.cells[k] = NaN
            ELSE \E i \in 1..Len(valid) : valid[i] = k /\ result.cells[k] = corrected[i]

\* C4: generate_corrected_pvalues and generate_corrected_pvalues_download
\* correct the valid p-values of all (compound, comparison) pairs of the batch
\* jointly as one family, and every result cell holds the corrected value of
\* that same pair's raw p-value, also when a compound name occurs in more
\* than one row.
C4_JointFamilyRightCell ==
    Returned("generate_corrected_pvalues") =>
        /\ result.error = ""
        /\ CellsFromOwnPair

\* the same property where no compound name occurs twice in the table, and on
\* the figure path for every table
C4_HoldsWithoutDuplicateRows ==
    (/\ Returned("generate_corrected_pvalues")
     /\ \/ result.path = "figure"
        \/ \A i, j \in 1..Len(args.df) :
               args.df[i].Compound = args.df[j].Compound => i = j)
        => (result.error = "" /\ CellsFromOwnPair)

(***************************************************************************)
(* compile_met_pool_ratio_data.                                            *)
(*                                                                         *)
(* The callers hand it the normalized pool table: the column Compound and  *)
(* two sample columns.  A cell of a normalized table is a finite number or *)
(* the outcome of a division by a normalization value 0 (inf).            *)
(***************************************************************************)
RatioCompounds == {"glucose", "lactate", "pyruvate"}
Inf == Rat(1, 0)
RatioProfiles == { <<FromInt(2), FromInt(0)>>, <<Inf, FromInt(1)>> }
RatioRow == [Compound : RatioCompounds, vals : RatioProfiles]
RatioSpecs == { [numerator |-> "glucose", denominator |-> "lactate"],
                [numerator |-> "lactate", denominator |-> "glucose"],
                [numerator |-> "pyruvate", denominator |-> "lactate"] }

\* df.loc[df['Compound'] == compound, df.columns[1:]].values
RowsOf(df, compound) ==
    LET Of(r) == r.Compound = compound IN SelectSeq(df, Of)

\* np.where(denom_values != 0, num_values / denom_values, 0), one row each
RatioValues(num_values, denom_values) ==
    [c \in 1..Len(num_values) |->
        IF denom_values[c] # FromInt(0)
        THEN RatDiv(num_values[c], denom_values[c])
        ELSE FromInt(0)]

\* a variant that takes the first matching row where several rows match
compile_ratio_first_row(df, ratio) ==
    LET num_values == RowsOf(df, ratio.numerator)
        denom_values == RowsOf(df, ratio.denominator)
    IN  IF Len(num_values) >= 1 /\ Len(denom_values) >= 1
        THEN << [pathway_class |-> "metabolite ratios",
                 Compound |-> <<ratio.numerator, "/", ratio.denominator>>,
                 vals |-> RatioValues(num_values[1].vals, denom_values[1].vals)] >>
        ELSE <<>>

\* the body of the loop for one ratio: the rows it appends to df_ratios
compile_ratio(df, ratio) ==
    LET num_values == RowsOf(df, ratio.numerator)
        denom_values == RowsOf(df, ratio.denominator)
    IN  IF Len(num_values) >= 1 /\ Len(denom_values) >= 1        \* check presence
        THEN IF Len(num_values) = 1 /\ Len(denom_values) = 1     \* single row extraction
             THEN << [pathway_class |-> "metabolite ratios",
                      Compound |-> <<ratio.numerator, "/", ratio.denominator>>,
                      vals |-> RatioValues(num_values[1].vals, denom_values[1].vals)] >>
             ELSE <<>>
        ELSE <<>>

\* a slip: every new row put in front of df_ratios
compile_ratios_prepended(df_pool_normalized_grouped, ratio_list) ==
    [error |-> "",
     df_ratios |-> Concat([i \in 1..Len(ratio_list) |->
                              compile_ratio(df_pool_normalized_grouped,
                                            ratio_list[Len(ratio_list) + 1 - i])])]

compile_met_pool_ratio_data(df_pool_normalized_grouped, ratio_list) ==
    [error |-> "",
     df_ratios |-> Concat([i \in 1..Len(ratio_list) |->
                              compile_ratio(df_pool_normalized_grouped, ratio_list[i])])]

InitRatio ==
    /\ args \in [fn : {"compile_met_pool_ratio_data"},
                 df : SeqsUpTo(RatioRow, MaxRatioRows),
                 ratio_list : SeqsUpTo(RatioSpecs, MaxRatios)]
    /\ result = <<>>
    /\ pc = "compile_met_pool_ratio_data"

CompileRatio ==
    /\ pc = "compile_met_pool_ratio_data"
    /\ result' = compile_met_pool_ratio_data(args.df, args.ratio_list)
    /\ pc' = "done"
    /\ UNCHANGED args

SpecRatio == InitRatio /\ [][CompileRatio]_vars

\* the ratio's numerator and denominator are each present in exactly one row
SingleRows(df, ratio) ==
    Len(RowsOf(df, ratio.numerator)) = 1 /\ Len(RowsOf(df, ratio.denominator)) = 1

RatioName(ratio) == <<ratio.numerator, "/", ratio.denominator>>

\* C7: for every ratio whose numerator and denominator are each present in
\* exactly one row, and every sample column, the ratio cell is
\* numerator/denominator when the denominator cell is non-zero and exactly 0
\* when it is 0; no ratio cell is NaN or infinite.
C7_RatioCellsFinite ==
    Returned("compile_met_pool_ratio_data") =>
        \A i \in 1..Len(args.ratio_list) :
            SingleRows(args.df, args.ratio_list[i]) =>
                \E k \in 1..Len(result.df_ratios) :
                    LET out == result.df_ratios[k]
                        num == RowsOf(args.df, args.ratio_list[i].numerator)[1].vals
                        den == RowsOf(args.df, args.ratio_list[i].denominator)[1].vals
                    IN  /\ out.Compound = RatioName(args.ratio_list[i])
                        /\ \A c \in 1..2 :
                              /\ den[c] # FromInt(0) => out.vals[c] = RatDiv(num[c], den[c])
                              /\ den[c] = FromInt(0) => out.vals[c] = FromInt(0)
                              /\ IsFinite(out.vals[c])

\* the part of C7 about the cells with a zero denominator, and about tables
\* of finite cells
C7_HoldsOnFiniteCells ==
    Returned("compile_met_pool_ratio_data") =>
        \A i \in 1..Len(args.ratio_list) :
            SingleRows(args.df, args.ratio_list[i]) =>
                \E k \in 1..Len(result.df_ratios) :
                    LET out == result.df_ratios[k]
                        num == RowsOf(args.df, args.ratio_list[i].numerator)[1].vals
                        den == RowsOf(args.df, args.ratio_list[i].denominator)[1].vals
                    IN  /\ out.Compound = RatioName(args.ratio_list[i])
                        /\ \A c \in 1..2 :
                              /\ den[c] # FromInt(0) => out.vals[c] = RatDiv(num[c], den[c])
                              /\ den[c] = FromInt(0) => out.vals[c] = FromInt(0)
                              /\ (IsFinite(num[c]) /\ IsFinite(den[c])) => IsFinite(out.vals[c])

Analytes == {"glucose", "lactate"}
Classes == {"glycolysis", "tca"}
RefRow == [analyte_name : Analytes, pathway_class : Classes]
GroupRow == [Compound : Analytes \cup {"std"}, val : {1, 2}]

NoDuplicates(s) == \A i, j \in 1..Len(s) : s[i] = s[j] => i = j

\* an inner join in the order of the right table
MergeRightOrder(left, right) ==
    Concat([j \in 1..Len(right) |->
        LET Match(l) == l.analyte_name = right[j].Compound
            ls == SelectSeq(left, Match)
        IN  [k \in 1..Len(ls) |->
                [analyte_name |-> ls[k].analyte_name,
                 pathway_class |-> ls[k].pathway_class,
                 Compound |-> right[j].Compound,
                 val |-> right[j].val]]])

\* left.merge(right, left_on='analyte_name', right_on='Compound', how='inner'):
\* the order of the left keys, the matches of one left row in the right order
Merge(left, right) ==
    Concat([i \in 1..Len(left) |->
        LET Match(r) == r.Compound = left[i].analyte_name
            rs == SelectSeq(right, Match)
        IN  [k \in 1..Len(rs) |->
                [analyte_name |-> left[i].analyte_name,
                 pathway_class |-> left[i].pathway_class,
                 Compound |-> rs[k].Compound,
                 val |-> rs[k].val]]])

group_met_pool_data(df_met_group_list, df, selected_met_classes) ==
    LET Selected(r) == r.pathway_class \in selected_met_classes
        df_met_group_select == SelectSeq(df_met_group_list, Selected)
        df_filtered == Merge(df_met_group_select, df)
    IN  \* drop('analyte_name', axis=1)
        [i \in 1..Len(df_filtered) |->
            [pathway_class |-> df_filtered[i].pathway_class,
             Compound |-> df_filtered[i].Compound,
             val |-> df_filtered[i].val]]

InitGroup ==
    /\ args \in [fn : {"group_met_pool_data"},
                 df_met_group_list : SeqsUpTo(RefRow, MaxRefRows),
                 df : SeqsUpTo(GroupRow, MaxRows),
                 selected_met_classes : SUBSET Classes]
    /\ NoDuplicates(args.df_met_group_list)
    /\ result = <<>>
    /\ pc = "group_met_pool_data"

GroupMetPool ==
    /\ pc = "group_met_pool_data"
    /\ result' = [error |-> "",
                  df |-> group_met_pool_data(args.df_met_group_list, args.df,
                                             args.selected_met_classes)]
    /\ pc' = "done"
    /\ UNCHANGED args

SpecGroup == InitGroup /\ [][GroupMetPool]_vars

\* the (reference row, table row) matches of a call
GroupMatches ==
    {m \in (1..Len(args.df_met_group_list)) \X (1..Len(args.df)) :
        /\ args.df_met_group_list[m[1]].pathway_class \in args.selected_met_classes
        /\ args.df_met_group_list[m[1]].analyte_name = args.df[m[2]].Compound}

\* the place of a match in reference row order, table row order within it
GroupRank(m) ==
    Cardinality({x \in GroupMatches : x[1] < m[1] \/ (x[1] = m[1] /\ x[2] < m[2])}) + 1

\* C9: the output rows of group_met_pool_data are exactly the (reference
\* row, table row) matches where the reference row's class is selected and
\* its analyte_name is the table row's Compound; a table compound absent
\* from the reference or of an unselected class never appears; the rows come
\* in the reference mapping's row order (the table rows of one reference row
\* in table order); nothing matching gives an empty table and no error.
C9_InnerJoinInReferenceOrder ==
    Returned("group_met_pool_data") =>
        /\ result.error = ""
        /\ Len(result.df) = Cardinality(GroupMatches)
        /\ \A m \in GroupMatches :
              result.df[GroupRank(m)] =
                  [pathway_class |-> args.df_met_group_list[m[1]].pathway_class,
                   Compound |-> args.df[m[2]].Compound,
                   val |-> args.df[m[2]].val]
        /\ \A k \in 1..Len(result.df) :
              \E i \in 1..Len(args.df_met_group_list) :
                  /\ args.df_met_group_list[i].analyte_name = result.df[k].Compound
                  /\ args.df_met_group_list[i].pathway_class = result.df[k].pathway_class
                  /\ result.df[k].pathway_class \in args.selected_met_classes
        /\ GroupMatches = {} => result.df = <<>>

\* two compounds come out in the reference order, the reverse of their order
\* in the table
C9_Witness ==
    /\ Returned("group_met_pool_data")
    /\ Len(result.df) = 2
    /\ Len(args.df) = 2
    /\ result.df[1].Compound = args.df[2].Compound
    /\ result.df[2].Compound = args.df[1].Compound
    /\ result.df[1].Compound # result.df[2].Compound

(***************************************************************************)
(* Linear regression of a metabolite row against an external variable:     *)
(* display_lingress_plots with generate_single_lingress_plot, and          *)
(* get_download_df_lingress.                                               *)
(*                                                                         *)
(* The pool table and the external-variable table have the same sample     *)
(* columns in the same order (process_lingress_data accepts the upload     *)
(* only then).  A series is a sequence of [sample, value] entries: the     *)
(* label and the value of each position.  A missing cell is NaN.           *)
(***************************************************************************)
LingressCols == <<"s1", "s2", "s3">>
LingressSamples == Range(LingressCols)
GroupNames == {"A", "B"}

\* store_met_groups: grouped_values.setdefault(value, []).append(sample_name)
\* over the sample inputs in column order; an empty input is skipped
RECURSIVE store_met_groups(_, _)
store_met_groups(input_ids, input_values) ==
    IF input_ids = <<>> THEN <<>>
    ELSE LET n == Len(input_ids)
             grouped_values == store_met_groups(SubSeq(input_ids, 1, n - 1), input_values)
             value == input_values[input_ids[n]]
         IN  IF value = "" THEN grouped_values
             ELSE IF \E g \in 1..Len(grouped_values) : grouped_values[g].name = value
             THEN [g \in 1..Len(grouped_values) |->
                     IF grouped_values[g].name = value
                     THEN [name |-> value,
                           samples |-> Append(grouped_values[g].samples, input_ids[n])]
                     ELSE grouped_values[g]]
             ELSE Append(grouped_values, [name |-> value, samples |-> <<input_ids[n]>>])

\* row[columns]: the series of a row over the given columns, in their order
SeriesOver(row, columns) ==
    [i \in 1..Len(columns) |-> [sample |-> columns[i], value |-> row[columns[i]]]]

\* valid_indices = (~var_values.isna()) & (~met_values.isna()): the two masks
\* are aligned on the labels
ValidLabels(var_values, met_values) ==
    {l \in LingressSamples :
        /\ \E i \in 1..Len(var_values) : var_values[i].sample = l /\ var_values[i].value # NaN
        /\ \E i \in 1..Len(met_values) : met_values[i].sample = l /\ met_values[i].value # NaN}

\* series[valid_indices]: the entries with a valid label, in the series' order
Filtered(series, valid_indices) ==
    LET Valid(e) == e.sample \in valid_indices IN SelectSeq(series, Valid)

\* scipy.stats.linregress(x, y): the exception it raises, "" for none.  It
\* raises ValueError for empty input and for identical x values; on a single
\* point it raises nothing and returns undefined statistics.
linregress_raises(x) ==
    IF Len(x) = 0 THEN "ValueError"
    ELSE IF Len(x) > 1 /\ \A i, j \in 1..Len(x) : x[i].value = x[j].value THEN "ValueError"
    ELSE ""

\* display_lingress_plots for one metabolite row, down to the call of
\* linregress in generate_single_lingress_plot
lingress_plot(met_row, var_row, met_groups) ==
    LET Fill(v) == IF v = NaN THEN 0 ELSE v                        \* fillna(0)
        df_var == [c \in LingressSamples |-> Fill(var_row[c])]
        all_samples == FlattenSamples(met_groups)
        InAll(c) == c \in Range(all_samples)
        df_var_cols_to_keep == SelectSeq(LingressCols, InAll)
        \* the normalized table has the columns all_samples, in that order
        met_values == SeriesOver(met_row, all_samples)
        var_values == SeriesOver(df_var, df_var_cols_to_keep)
        valid_indices == ValidLabels(var_values, met_values)
        x == Filtered(var_values, valid_indices)
    IN  \* no guard on the number of points; an exception of linregress leaves
        \* the callback
        [path |-> "plot", called |-> TRUE,
         x |-> x,
         y |-> Filtered(met_values, valid_indices),
         nd_reason |-> "",
         raised |-> linregress_raises(x)]

\* get_download_df_lingress for one metabolite row
lingress_download(met_row, var_row, grouped_samples) ==
    LET all_samples == FlattenSamples(grouped_samples)
        met_values == SeriesOver(met_row, all_samples)
        var_values == SeriesOver(var_row, all_samples)
        valid_indices == ValidLabels(var_values, met_values)
        var_values_filtered == Filtered(var_values, valid_indices)
        met_values_filtered == Filtered(met_values, valid_indices)
    IN  IF Len(var_values_filtered) < 2 \/ Len(met_values_filtered) < 2
        THEN [path |-> "download", called |-> FALSE, x |-> <<>>, y |-> <<>>,
              nd_reason |-> "Insufficient valid data points", raised |-> ""]
        ELSE \* try: linregress(...) except Exception: the record carries the reason
             [path |-> "download", called |-> TRUE,
              x |-> var_values_filtered, y |-> met_values_filtered,
              nd_reason |-> IF linregress_raises(var_values_filtered) = "" THEN ""
                            ELSE "Error during linregress",
              raised |-> ""]

InitLingress ==
    /\ args \in [fn : {"lingress"},
                 met_row : [LingressSamples -> {1, 3, NaN}],
                 var_row : [LingressSamples -> {2, 4, NaN}],
                 input_values : [LingressSamples -> GroupNames \cup {""}]]
    /\ \E c \in LingressSamples : args.input_values[c] # ""
    /\ result = <<>>
    /\ pc = "lingress"

LingressPlot ==
    /\ pc = "lingress"
    /\ result' = lingress_plot(args.met_row, args.var_row,
                               store_met_groups(LingressCols, args.input_values))
    /\ pc' = "done"
    /\ UNCHANGED args

LingressDownload ==
    /\ pc = "lingress"
    /\ result' = lingress_download(args.met_row, args.var_row,
                                   store_met_groups(LingressCols, args.input_values))
    /\ pc' = "done"
    /\ UNCHANGED args

NextLingress == LingressPlot \/ LingressDownload

SpecLingress == InitLingress /\ [][NextLingress]_vars

\* x and y have equal length and hold, position by position, the values of
\* the same sample column
PairedBySample(x, y) ==
    /\ Len(x) = Len(y)
    /\ \A i \in 1..Len(x) : x[i].sample = y[i].sample

\* C10: in get_download_df_lingress and generate_single_lingress_plot the x
\* (external variable) and y (metabolite) sequences passed to linregress
\* have equal length and x[i], y[i] are the values of the same sample column,
\* for every ordering of the sample-group columns relative to the column
\* order of the external-variable table.
C10_RegressionPairedBySample ==
    (Returned("lingress") /\ result.called) => PairedBySample(result.x, result.y)

\* the download path pairs by sample
C10_HoldsOnDownload ==
    (Returned("lingress") /\ result.called /\ result.path = "download")
        => PairedBySample(result.x, result.y)

\* the sample columns that give a valid (non-NaN) pair of a call: the
\* grouped columns whose metabolite cell and external-variable cell are both
\* present; the plot path has filled a missing external-variable cell with 0
ValidPairs ==
    {c \in Range(FlattenSamples(store_met_groups(LingressCols, args.input_values))) :
        /\ args.met_row[c] # NaN
        /\ result.path = "plot" \/ args.var_row[c] # NaN}

\* C11: a regression with fewer than 2 valid paired points signals an
\* insufficient-data condition instead of attempting the regression, in the
\* plot path and in the download path, for empty and single-point inputs.
\* An exception that leaves the call is counted as a signal here; what the
\* property excludes is a regression computed on fewer than 2 points.
C11_InsufficientDataSignalled ==
    (Returned("lingress") /\ Cardinality(ValidPairs) < 2) =>
        \/ ~result.called /\ result.nd_reason = "Insufficient valid data points"
        \/ result.raised # ""

\* the download path signals it
C11_HoldsOnDownload ==
    (Returned("lingress") /\ result.path = "download" /\ Cardinality(ValidPairs) < 2) =>
        /\ ~result.called
        /\ result.nd_reason = "Insufficient valid data points"

(***************************************************************************)
(* get_download_df_lingress over a whole table, as download_sheet_w_options *)
(* calls it: grouped_samples is the stored group mapping or the marker      *)
(* 'all'.                                                                  *)
(***************************************************************************)
BatchMetProfiles == { [s1 |-> 1, s2 |-> 3, s3 |-> 1],
                      [s1 |-> 1, s2 |-> NaN, s3 |-> NaN],
                      [s1 |-> NaN, s2 |-> NaN, s3 |-> NaN] }
BatchVarProfiles == { [s1 |-> 2, s2 |-> 4, s3 |-> 2],
                      [s1 |-> 2, s2 |-> 2, s3 |-> 2],
                      [s1 |-> 2, s2 |-> NaN, s3 |-> 4] }
BatchRow == [Compound : {"glucose", "lactate"}, vals : BatchMetProfiles]
BatchGroupChoices ==
    { GroupsAll,
      Groups(<<[name |-> "A", samples |-> <<"s1", "s3">>], [name |-> "B", samples |-> <<"s2">>]>>),
      Groups(<<[name |-> "A", samples |-> <<"s1", "s2", "s3">>]>>) }

get_download_df_lingress(df_var_data, df_pool_normalized_grouped, grouped_samples) ==
    IF grouped_samples.all
    THEN \* grouped_samples.values() on the string 'all'
         [error |-> "AttributeError", records |-> <<>>]
    ELSE [error |-> "",
          records |->
              [i \in 1..Len(df_pool_normalized_grouped) |->
                  [Compound |-> df_pool_normalized_grouped[i].Compound,
                   nd_reason |-> lingress_download(df_pool_normalized_grouped[i].vals,
                                                   df_var_data,
                                                   grouped_samples.groups).nd_reason]]]

InitLingressBatch ==
    /\ args \in [fn : {"get_download_df_lingress"},
                 df : SeqsUpTo(BatchRow, MaxRows),
                 df_var_data : BatchVarProfiles,
                 grouped_samples : BatchGroupChoices]
    /\ result = <<>>
    /\ pc = "get_download_df_lingress"

DownloadLingress ==
    /\ pc = "get_download_df_lingress"
    /\ result' = get_download_df_lingress(args.df_var_data, args.df, args.grouped_samples)
    /\ pc' = "done"
    /\ UNCHANGED args

SpecLingressBatch == InitLingressBatch /\ [][DownloadLingress]_vars

\* one record per row of the table, in row order; a row with fewer than 2
\* valid pairs carries the insufficient-data reason, a row whose regression
\* fails (identical x values) the error reason, any other row no reason
OneRecordPerRow ==
    /\ result.error = ""
    /\ Len(result.records) = Len(args.df)
    /\ \A i \in 1..Len(args.df) :
          LET cols == IF args.grouped_samples.all THEN LingressSamples
                      ELSE Range(FlattenSamples(args.grouped_samples.groups))
              valid == {c \in cols : args.df[i].vals[c] # NaN /\ args.df_var_data[c] # NaN}
              constant == \A c, d \in valid : args.df_var_data[c] = args.df_var_data[d]
          IN  /\ result.records[i].Compound = args.df[i].Compound
              /\ result.records[i].nd_reason =
                    IF Cardinality(valid) < 2 THEN "Insufficient valid data points"
                    ELSE IF constant THEN "Error during linregress"
                    ELSE ""

\* C12: get_download_df_lingress returns exactly one record per row of the
\* normalized/grouped table, in row order; a row with fewer than 2 valid
\* pairs or a failing regression yields a record with an ND Reason and the
\* remaining rows are still processed; no failure aborts the batch.
C12_OneRecordPerRow ==
    Returned("get_download_df_lingress") => OneRecordPerRow

\* the same for a stored group mapping
C12_HoldsForGroupMapping ==
    (Returned("get_download_df_lingress") /\ ~args.grouped_samples.all) => OneRecordPerRow

(***************************************************************************)
(* assign_color.                                                           *)
(*                                                                         *)
(* A float is a number or NaN (the -log10 of a NaN p-value, the log2 of an *)
(* undefined fold change); every comparison with NaN is false.             *)
(***************************************************************************)
Num(v) == [nan |-> FALSE, v |-> v]
NaNFloat == [nan |-> TRUE, v |-> 0]
Floats(S) == {Num(v) : v \in S} \cup {NaNFloat}

\* a non-strict comparison in the place of the strict one
GtOrEqual(a, b) == ~a.nan /\ ~b.nan /\ a.v >= b.v

\* a > b on floats
Gt(a, b) == ~a.nan /\ ~b.nan /\ a.v > b.v

\* a <= b on floats
Le(a, b) == ~a.nan /\ ~b.nan /\ a.v <= b.v

\* a < -b on floats
LtNeg(a, b) == ~a.nan /\ ~b.nan /\ a.v < -b.v

assign_color(row, FC_cutoff, third_pvalue_cutoff, second_pvalue_cutoff, first_pvalue_cutoff) ==
    LET plot_pvalue == row.logp_value
        plot_FC == row.log2FC
        ns_color == "datapoint_color"
    IN  IF Gt(plot_FC, FC_cutoff)
        THEN IF Gt(plot_pvalue, third_pvalue_cutoff) THEN "color_inc_3"
             ELSE IF Le(plot_pvalue, third_pvalue_cutoff) /\ Gt(plot_pvalue, second_pvalue_cutoff)
             THEN "color_inc_2"
             ELSE IF Le(plot_pvalue, second_pvalue_cutoff) /\ Gt(plot_pvalue, first_pvalue_cutoff)
             THEN "color_inc_1"
             ELSE ns_color
        ELSE IF LtNeg(plot_FC, FC_cutoff)
        THEN IF Gt(plot_pvalue, third_pvalue_cutoff) THEN "color_dec_3"
             ELSE IF Le(plot_pvalue, third_pvalue_cutoff) /\ Gt(plot_pvalue, second_pvalue_cutoff)
             THEN "color_dec_2"
             ELSE IF Le(plot_pvalue, second_pvalue_cutoff) /\ Gt(plot_pvalue, first_pvalue_cutoff)
             THEN "color_dec_1"
             ELSE ns_color
        ELSE ns_color

\* log2FC and the fold-change cutoff (positive: the input has min=0.1), and
\* -log10 p and the three tier cutoffs, first < second < third
InitColor ==
    /\ args \in [fn : {"assign_color"},
                 log2FC : Floats((0 - MaxFold)..MaxFold),
                 logp_value : Floats(0..MaxLogP),
                 FC_cutoff : {Num(v) : v \in 1..(MaxFold - 1)},
                 first : {Num(v) : v \in 1..(MaxLogP - 1)},
                 second : {Num(v) : v \in 1..(MaxLogP - 1)},
                 third : {Num(v) : v \in 1..(MaxLogP - 1)}]
    /\ args.first.v < args.second.v
    /\ args.second.v < args.third.v
    /\ result = <<>>
    /\ pc = "assign_color"

AssignColor ==
    /\ pc = "assign_color"
    /\ result' = assign_color([log2FC |-> args.log2FC, logp_value |-> args.logp_value],
                              args.FC_cutoff, args.third, args.second, args.first)
    /\ pc' = "done"
    /\ UNCHANGED args

SpecColor == InitColor /\ [][AssignColor]_vars

\* the highest tier whose cutoff -log10 p strictly exceeds, 0 for none
ColorTier ==
    IF args.logp_value.nan THEN 0
    ELSE IF args.logp_value.v > args.third.v THEN 3
    ELSE IF args.logp_value.v > args.second.v THEN 2
    ELSE IF args.logp_value.v > args.first.v THEN 1
    ELSE 0

TierColor(direction, tier) ==
    CASE direction = "inc" /\ tier = 1 -> "color_inc_1"
      [] direction = "inc" /\ tier = 2 -> "color_inc_2"
      [] direction = "inc" /\ tier = 3 -> "color_inc_3"
      [] direction = "dec" /\ tier = 1 -> "color_dec_1"
      [] direction = "dec" /\ tier = 2 -> "color_dec_2"
      [] direction = "dec" /\ tier = 3 -> "color_dec_3"

\* C13: assign_color returns the increase colour of the highest tier t with
\* -log10 p > t when log2FC > fc_cutoff, the decrease colour of that tier
\* when log2FC < -fc_cutoff, and the not-significant colour otherwise; all
\* comparisons are strict: log2FC = +-fc_cutoff or -log10 p <= tier1 gives
\* not-significant, -log10 p equal to a tier cutoff falls into the next
\* lower tier, and the fold change alone never gives a significant colour.
C13_AssignColorByTier ==
    Returned("assign_color") =>
        LET up == ~args.log2FC.nan /\ args.log2FC.v > args.FC_cutoff.v
            down == ~args.log2FC.nan /\ args.log2FC.v < 0 - args.FC_cutoff.v
        IN  /\ (up /\ ColorTier > 0) => result = TierColor("inc", ColorTier)
            /\ (down /\ ColorTier > 0) => result = TierColor("dec", ColorTier)
            /\ (ColorTier = 0 \/ (~up /\ ~down)) => result = "datapoint_color"
            /\ (~args.log2FC.nan /\ args.log2FC.v \in {args.FC_cutoff.v, 0 - args.FC_cutoff.v})
                  => result = "datapoint_color"
            /\ (up /\ ~args.logp_value.nan /\ args.logp_value.v = args.third.v)
                  => result = "color_inc_2"
            /\ (down /\ ~args.logp_value.nan /\ args.logp_value.v = args.second.v)
                  => result = "color_dec_1"
            /\ (~args.logp_value.nan /\ args.logp_value.v <= args.first.v)
                  => result = "datapoint_color"

\* -log10 p on the second cutoff with a fold change above the cutoff: tier 1
C13_Witness ==
    /\ Returned("assign_color")
    /\ args.logp_value = args.second
    /\ Gt(args.log2FC, args.FC_cutoff)
    /\ result = "color_inc_1"

(***************************************************************************)
(* Comparison storage: store_p_value_metabolomics,                         *)
(* store_p_value_isotopologue_distribution and collect_download_options.   *)
(*                                                                         *)
(* stored_group_order is the stored group mapping, here the list of its    *)
(* keys; a dropdown value is a key of it or None.  Indices are 0-based as  *)
(* list.index gives them.                                                  *)
(***************************************************************************)
GroupKeys == {"A", "B", "C"}
None == "None"

\* the lists of distinct group keys
GroupOrders ==
    {o \in SeqsUpTo(GroupKeys, Cardinality(GroupKeys)) : \A i, j \in 1..Len(o) : o[i] = o[j] => i = j}

\* group_order.index(group)
IndexOf(group_order, group) ==
    (CHOOSE i \in 1..Len(group_order) : group_order[i] = group) - 1

\* the pair as selected, unsorted
UnsortedIndices(group_order, group1, group2) ==
    <<IndexOf(group_order, group1), IndexOf(group_order, group2)>>

\* sorted([group_order.index(group1), group_order.index(group2)])
SortedIndices(group_order, group1, group2) ==
    LET a == IndexOf(group_order, group1)
        b == IndexOf(group_order, group2)
    IN  IF a <= b THEN <<a, b>> ELSE <<b, a>>

\* the loop over zip(dropdown_values, dropdown2_values) with seen_combinations;
\* skip_none is the 'continue' of collect_download_options
RECURSIVE CombinedValues(_, _, _)
CombinedValues(group_order, selections, skip_none) ==
    IF selections = <<>> THEN <<>>
    ELSE LET n == Len(selections)
             combined_values == CombinedValues(group_order, SubSeq(selections, 1, n - 1), skip_none)
             sel == selections[n]
         IN  IF skip_none /\ (sel[1] = None \/ sel[2] = None) THEN combined_values
             ELSE LET combination == SortedIndices(group_order, sel[1], sel[2])
                  IN  IF combination \in Range(combined_values) THEN combined_values
                      ELSE Append(combined_values, combination)

\* store_p_value_metabolomics and store_p_value_isotopologue_distribution
store_p_value(dropdown_values, stored_group_order) ==
    IF stored_group_order # <<>>
    THEN IF \E k \in 1..Len(dropdown_values) :
                dropdown_values[k][1] = None \/ dropdown_values[k][2] = None
         THEN [update |-> FALSE, combinations |-> <<>>]
         ELSE [update |-> TRUE,
               combinations |-> CombinedValues(stored_group_order, dropdown_values, FALSE)]
    ELSE [update |-> FALSE, combinations |-> <<>>]

\* the p-value comparisons of collect_download_options
collect_download_options(p_value_comp, stored_group_order) ==
    IF stored_group_order # <<>>
    THEN [update |-> TRUE,
          combinations |-> CombinedValues(stored_group_order, p_value_comp, TRUE)]
    ELSE [update |-> TRUE, combinations |-> <<>>]

InitComparisons ==
    /\ args \in [fn : {"store_comparisons"},
                 stored_group_order : GroupOrders,
                 selections : SeqsUpTo((GroupKeys \cup {None}) \X (GroupKeys \cup {None}),
                                       MaxSelections)]
    \* the dropdown options are the keys of the stored group order
    /\ \A k \in 1..Len(args.selections) : \A e \in 1..2 :
          args.selections[k][e] \in Range(args.stored_group_order) \cup {None}
    /\ result = <<>>
    /\ pc = "store_comparisons"

StorePValueMetabolomics ==
    /\ pc = "store_comparisons"
    /\ result' = [path |-> "metabolomics"] @@
                 store_p_value(args.selections, args.stored_group_order)
    /\ pc' = "done"
    /\ UNCHANGED args

StorePValueIsotopologueDistribution ==
    /\ pc = "store_comparisons"
    /\ result' = [path |-> "isotopologue"] @@
                 store_p_value(args.selections, args.stored_group_order)
    /\ pc' = "done"
    /\ UNCHANGED args

CollectDownloadOptions ==
    /\ pc = "store_comparisons"
    /\ result' = [path |-> "download"] @@
                 collect_download_options(args.selections, args.stored_group_order)
    /\ pc' = "done"
    /\ UNCHANGED args

NextComparisons ==
    \/ StorePValueMetabolomics
    \/ StorePValueIsotopologueDistribution
    \/ CollectDownloadOptions

SpecComparisons == InitComparisons /\ [][NextComparisons]_vars

\* the selections that count: all of them, or for the download those
\* without None
CountedSelections ==
    {k \in 1..Len(args.selections) :
        args.selections[k][1] # None /\ args.selections[k][2] # None}

\* the 0-based indices of the two groups of a selection, as a set
SelectedIndexSet(k) ==
    {IndexOf(args.stored_group_order, args.selections[k][1]),
     IndexOf(args.stored_group_order, args.selections[k][2])}

\* the first selection that names the groups of the stored pair c
FirstSelection(c) ==
    CHOOSE k \in CountedSelections :
        /\ SelectedIndexSet(k) = {c[1], c[2]}
        /\ \A j \in CountedSelections : SelectedIndexSet(j) = {c[1], c[2]} => k <= j

\* C14: each stored comparison is the ascending-sorted pair of indices of
\* the two selected groups in the current group key order; mirror selections
\* (A,B) and (B,A) give the identical stored pair; the stored list holds each
\* pair at most once, in order of first selection.
C14_ComparisonsSortedUnique ==
    (Returned("store_comparisons") /\ result.update) =>
        LET stored == result.combinations
        IN  /\ \A i \in 1..Len(stored) :
                  /\ stored[i][1] <= stored[i][2]
                  /\ \E k \in CountedSelections : SelectedIndexSet(k) = {stored[i][1], stored[i][2]}
            /\ \A k \in CountedSelections :
                  \E i \in 1..Len(stored) : SelectedIndexSet(k) = {stored[i][1], stored[i][2]}
            /\ \A i, j \in 1..Len(stored) : stored[i] = stored[j] => i = j
            /\ \A i, j \in 1..Len(stored) :
                  i < j => FirstSelection(stored[i]) < FirstSelection(stored[j])

\* the mirror selections (X,Y) and (Y,X) of two different groups are stored
\* as one pair
C14_Witness ==
    /\ Returned("store_comparisons")
    /\ result.update
    /\ Len(args.selections) = 2
    /\ args.selections[1][1] # args.selections[1][2]
    /\ args.selections[2] = <<args.selections[1][2], args.selections[1][1]>>
    /\ Len(result.combinations) = 1
    /\ None \notin Range(args.selections[1])
    /\ IndexOf(args.stored_group_order, args.selections[1][1])
          > IndexOf(args.stored_group_order, args.selections[1][2])

(***************************************************************************)
(* A session of group and comparison updates.  result holds the stores of  *)
(* the page:                                                               *)
(*   met_groups    store-met-groups, written by store_met_groups           *)
(*   data_order    store-data-order, written by store_data_order_selection *)
(*   combinations  store-p-value-metabolomics                              *)
(* and, as a record of the history, selected: for every stored comparison  *)
(* the two group names the user selected when it was stored.               *)
(***************************************************************************)
Keys(groups) == [g \in 1..Len(groups) |-> groups[g].name]

\* generate_data_order_selection: the rows of the grid, "" where a group has
\* fewer samples
GridRows(met_groups) ==
    LET valid_groups == met_groups
        lens == {Len(valid_groups[g].samples) : g \in 1..Len(valid_groups)}
        max_samples == CHOOSE m \in lens : \A l \in lens : l <= m
    IN  [i \in 1..max_samples |->
            [g \in 1..Len(valid_groups) |->
                [group |-> valid_groups[g].name,
                 sample |-> IF i <= Len(valid_groups[g].samples)
                            THEN valid_groups[g].samples[i] ELSE ""]]]

\* transformed_data[group]: the non-empty cells of the group's column, by row
ColumnCells(data, group) ==
    LET cells == Concat([i \in 1..Len(data) |-> data[i]])
        Of(c) == c.group = group /\ c.sample # ""
        own == SelectSeq(cells, Of)
    IN  [k \in 1..Len(own) |-> own[k].sample]

\* a slip: the regrouped grid data returned without the reordering
store_data_order_unordered(column_state, data) ==
    LET names == IF data = <<>> THEN <<>>
                 ELSE [g \in 1..Len(data[1]) |-> data[1][g].group]
    IN  [k \in 1..Len(names) |-> [name |-> names[k], samples |-> ColumnCells(data, names[k])]]

\* store_data_order_selection on update-data-order: the grid data regrouped
\* by column and reordered by the column state
store_data_order_selection(column_state, data) ==
    LET InData(col_id) == ColumnCells(data, col_id) # <<>>
        ordered == SelectSeq(column_state, InData)
    IN  [k \in 1..Len(ordered) |-> [name |-> ordered[k], samples |-> ColumnCells(data, ordered[k])]]

\* the group names typed into the sample inputs s1, s2, s3 at an update
SessionInputs ==
    { [s1 |-> "A", s2 |-> "B", s3 |-> "C"],
      [s1 |-> "A", s2 |-> "B", s3 |-> "A"],
      [s1 |-> "B", s2 |-> "A", s3 |-> ""],
      [s1 |-> "A", s2 |-> "A", s3 |-> "A"] }

InitSession ==
    /\ args = [fn |-> "session"]
    /\ result = [met_groups |-> <<>>, data_order |-> <<>>,
                 combinations |-> <<>>, selected |-> <<>>, steps |-> 0]
    /\ pc = "session"

\* update-groups: store_met_groups writes store-met-groups, and that update
\* triggers store_data_order_selection, which copies it to store-data-order
UpdateGroups ==
    /\ pc = "session"
    /\ result.steps < MaxSteps
    /\ \E input_values \in SessionInputs :
          /\ LET grouped_values == store_met_groups(LingressCols, input_values)
             IN  result' = [result EXCEPT !.met_groups = grouped_values,
                                          !.data_order = grouped_values,
                                          !.steps = @ + 1]
    /\ UNCHANGED <<args, pc>>

\* update-data-order: the user has dragged the columns of the grid into
\* another order
UpdateDataOrder ==
    /\ pc = "session"
    /\ result.steps < MaxSteps
    /\ result.met_groups # <<>>
    /\ \E column_state \in GroupOrders :
          /\ Range(column_state) = Range(Keys(result.met_groups))
          /\ result' = [result EXCEPT
                            !.data_order = store_data_order_selection(
                                               column_state, GridRows(result.met_groups)),
                            !.steps = @ + 1]
    /\ UNCHANGED <<args, pc>>

\* update-p-value-metabolomics: the dropdown values are keys of store-data-order
UpdatePValue ==
    /\ pc = "session"
    /\ result.steps < MaxSteps
    /\ \E dropdown_values \in SeqsUpTo(Range(Keys(result.data_order))
                                           \X Range(Keys(result.data_order)),
                                       MaxSessionSelections) :
          /\ dropdown_values # <<>>
          /\ LET group_order == Keys(result.data_order)
                 stored == store_p_value(dropdown_values, group_order)
             IN  /\ stored.update
                 /\ result' = [result EXCEPT
                        !.combinations = stored.combinations,
                        !.selected = [k \in 1..Len(stored.combinations) |->
                                         {group_order[stored.combinations[k][1] + 1],
                                          group_order[stored.combinations[k][2] + 1]}],
                        !.steps = @ + 1]
    /\ UNCHANGED <<args, pc>>

NextSession == UpdateGroups \/ UpdateDataOrder \/ UpdatePValue

SpecSession == InitSession /\ [][NextSession]_vars

\* C15: after any sequence of group updates and comparison updates every
\* stored comparison [a, b] has both indices inside the current group key
\* list and, resolved against that list as the plot does, names the two
\* groups the user selected when the comparison was stored.
C15_ComparisonsFollowGroups ==
    (pc = "session" /\ args.fn = "session") =>
        LET group_list == Keys(result.data_order)
        IN  \A k \in 1..Len(result.combinations) :
                LET a == result.combinations[k][1]
                    b == result.combinations[k][2]
                IN  /\ a < Len(group_list)
                    /\ b < Len(group_list)
                    /\ {group_list[a + 1], group_list[b + 1]} = result.selected[k]

\* what holds: right after a comparison update the stored comparisons name
\* the selected groups
C15_HoldsAfterComparisonUpdate ==
    [][UpdatePValue =>
          LET group_list == Keys(result'.data_order)
          IN  \A k \in 1..Len(result'.combinations) :
                  /\ result'.combinations[k][2] < Len(group_list)
                  /\ {group_list[result'.combinations[k][1] + 1],
                      group_list[result'.combinations[k][2] + 1]} = result'.selected[k]]_vars

\* C16: no pipeline component mutates the table it is given: when the call
\* returns, the caller-supplied table has the same rows, columns and cell
\* values as before the call.
C16_TablesNotMutated == [][args' = args]_vars

\* generate_corrected_pvalues leaves a table with a C_Label column, and one
\* without duplicated compound names, as it was
C16_HoldsWithoutDuplicateCompounds ==
    [][(GenerateCorrected
        /\ \/ args.graph # "pool"
           \/ \A i, j \in 1..Len(args.df) : args.df[i].Compound = args.df[j].Compound => i = j)
       => args' = args]_vars

\* C17: normalize_met_pool_data never yields an infinite or undefined cell:
\* when the product P(c) of the normalization rows of column c is 0, every
\* output cell of that column is a sentinel, 0 or NaN; no cell of any column
\* is infinite.
C17_ZeroProductGivesSentinel ==
    Returned("normalize_met_pool_data") =>
        \A k \in 1..Len(result.rows) : \A c \in Range(result.columns) :
            LET out == result.rows[k].vals[c]
            IN  /\ ~IsInf(out)
                /\ NormProduct(args.df_pool.rows, args.normalization_list, c) = 0
                      => (out = FromInt(0) \/ IsNaN(out))

\* the cells of a column whose product is not 0 are finite numbers
C17_HoldsForNonZeroProduct ==
    Returned("normalize_met_pool_data") =>
        \A k \in 1..Len(result.rows) : \A c \in Range(result.columns) :
            NormProduct(args.df_pool.rows, args.normalization_list, c) # 0
                => IsFinite(result.rows[k].vals[c])

(***************************************************************************)
(* generate_group_significance                                             *)
(*                                                                         *)
(* A table over six sample columns 1..6; a row gives each consecutive pair of   *)
(* columns one of a few replicate profiles, in the units of the pairwise   *)
(* test above.  The result dictionary is the sequence of its items in      *)
(* insertion order.                                                        *)
(***************************************************************************)
SigCompounds == {"glucose", "lactate"}

Low == <<10, 31>>
High == <<100, 121>>
OneZero == <<0, 31>>

SigProfiles ==
    {a \o b \o c : a \in {Low, High, OneZero}, b \in {Low, High}, c \in {Low, High}}

SigRow == [Compound : SigCompounds, vals : SigProfiles]
SigTables == SeqsUpTo(SigRow, MaxSigRows)

SigGroupChoices ==
    { <<[name |-> "A", samples |-> <<1, 2>>], [name |-> "B", samples |-> <<3, 4>>]>>,
      <<[name |-> "B", samples |-> <<1, 2>>], [name |-> "A", samples |-> <<3, 4>>]>>,
      <<[name |-> "C", samples |-> <<1, 2>>], [name |-> "A", samples |-> <<3, 4>>],
        [name |-> "B", samples |-> <<5, 6>>]>>,
      <<[name |-> "A", samples |-> <<1, 2>>]>> }

\* the order of Python's string comparison on the group names
NameRank(name) == CASE name = "A" -> 1 [] name = "B" -> 2 [] name = "C" -> 3

\* tuple(sorted([group1, group2]))
SortedGroups(group1, group2) ==
    IF NameRank(group1) <= NameRank(group2) THEN <<group1, group2>> ELSE <<group2, group1>>

\* [(group1, group2) for i, group1 in enumerate(keys) for group2 in keys[i+1:]]
\* as positions in the key order
UniquePairs(n) ==
    LET from[i \in 1..(n + 1)] ==
            IF i > n THEN <<>>
            ELSE [k \in 1..(n - i) |-> <<i, i + k>>] \o from[i + 1]
    IN  from[1]

\* row[grouped_samples[group]]
RowData(row, samples) == [k \in 1..Len(samples) |-> row.vals[samples[k]]]

\* the item of compound in the dictionary, 0 for none
ItemOf(significant_results, compound) ==
    LET hits == {k \in 1..Len(significant_results) :
                    significant_results[k].compound = compound}
    IN  IF hits = {} THEN 0 ELSE CHOOSE k \in hits : TRUE

\* the body of the inner loop for one (row, pair)
RecordPair(significant_results, row, grouped_samples, pair) ==
    LET g1 == grouped_samples[pair[1]]
        g2 == grouped_samples[pair[2]]
        pvalue == group_significance_pair(RowData(row, g1.samples),
                                          RowData(row, g2.samples)).pvalue
        sorted_groups == SortedGroups(g1.name, g2.name)
        k == ItemOf(significant_results, row.Compound)
    IN  IF pvalue # NaN /\ pvalue < 50
        THEN IF k = 0
             THEN Append(significant_results,
                         [compound |-> row.Compound, pairs |-> <<sorted_groups>>])
             ELSE IF sorted_groups \in Range(significant_results[k].pairs)
             THEN significant_results
             ELSE [significant_results EXCEPT
                      ![k].pairs = Append(significant_results[k].pairs, sorted_groups)]
        ELSE significant_results

generate_group_significance(df_pool, grouped_samples) ==
    LET unique_pairs == UniquePairs(Len(grouped_samples))
        np == Len(unique_pairs)
        \* the dictionary after the first t steps of the two nested loops
        after[t \in 0..(Len(df_pool) * np)] ==
            IF t = 0 THEN <<>>
            ELSE RecordPair(after[t - 1], df_pool[((t - 1) \div np) + 1],
                            grouped_samples, unique_pairs[((t - 1) % np) + 1])
    IN  after[Len(df_pool) * np]

InitSignificance ==
    /\ args \in [fn : {"generate_group_significance"},
                 df_pool : SigTables,
                 grouped_samples : SigGroupChoices]
    /\ result = <<>>
    /\ pc = "generate_group_significance"

GenerateGroupSignificance ==
    /\ pc = "generate_group_significance"
    /\ result' = [significant_results |->
                     generate_group_significance(args.df_pool, args.grouped_samples)]
    /\ pc' = "done"
    /\ UNCHANGED args

SpecSignificance == InitSignificance /\ [][GenerateGroupSignificance]_vars

\* the pairs recorded for a compound
RecordedFor(compound) ==
    LET k == ItemOf(result.significant_results, compound)
    IN  IF k = 0 THEN <<>> ELSE result.significant_results[k].pairs

\* the zero-filtered Welch p-value of row i for the groups at positions g, h
\* is a number below 0.05
Significant(i, g, h) ==
    LET G == args.grouped_samples
        p == group_significance_pair(RowData(args.df_pool[i], G[g].samples),
                                     RowData(args.df_pool[i], G[h].samples)).pvalue
    IN  p # NaN /\ p < 50

\* the two names in sorted order
NamePair(g, h) ==
    LET a == args.grouped_samples[g].name
        b == args.grouped_samples[h].name
    IN  IF NameRank(a) < NameRank(b) THEN <<a, b>> ELSE <<b, a>>

\* the property of C18 on the rows in Rows
GroupSignificanceOn(Rows) ==
    LET G == args.grouped_samples
        R == result.significant_results
    IN  /\ \A i \in Rows : \A g, h \in 1..Len(G) :
              g < h => (NamePair(g, h) \in Range(RecordedFor(args.df_pool[i].Compound))
                          <=> Significant(i, g, h))
        /\ \A k \in 1..Len(R) :
              /\ R[k].pairs # <<>>
              /\ \A a, b \in 1..Len(R[k].pairs) : R[k].pairs[a] = R[k].pairs[b] => a = b
              /\ \A a \in 1..Len(R[k].pairs) :
                    \E g, h \in 1..Len(G) : g < h /\ R[k].pairs[a] = NamePair(g, h)
              /\ \A j \in 1..Len(R) : R[j].compound = R[k].compound => j = k

\* C18: generate_group_significance: for every compound row and every
\* unordered pair of distinct groups, the pair is recorded for that compound
\* if and only if the zero-filtered Welch p-value is a number < 0.05 (a NaN
\* p-value is never recorded); each recorded pair is the tuple of the two
\* group names in sorted order and occurs at most once per compound;
\* compounds with no significant pair have no entry.
C18_PairRecordedIffSignificant ==
    Returned("generate_group_significance") =>
        GroupSignificanceOn(1..Len(args.df_pool))

\* the same holds for every table whose compound names are all different
C18_HoldsForDistinctCompounds ==
    (/\ Returned("generate_group_significance")
     /\ \A i, j \in 1..Len(args.df_pool) :
           args.df_pool[i].Compound = args.df_pool[j].Compound => i = j)
        => GroupSignificanceOn(1..Len(args.df_pool))

\* with the groups keyed C, A, B, glucose differs between C and A and between
\* A and B but not between C and B
C18_DistinctCompoundsWitness ==
    /\ Returned("generate_group_significance")
    /\ Len(args.grouped_samples) = 3
    /\ \E k \in 1..Len(result.significant_results) :
          result.significant_results[k].pairs = <<<<"A", "C">>, <<"A", "B">>>>

(***************************************************************************)
(* process_lingress_data                                                   *)
(*                                                                         *)
(* The uploaded workbook is the pair of its sheets 'PoolAfterDF' and       *)
(* 'Lingress', each absent or given by its headers after the first column. *)
(* pandas hands out distinct headers, so a sheet's raw headers are all     *)
(* different.                                                              *)
(***************************************************************************)
Headers == {"s1", "s2", "s3", "s 1", "s'2"}

\* .str.replace(r'\s+', '', regex=True).str.strip() of one header
CleanHeader(h) == IF h = "s 1" THEN "s1" ELSE h

\* the header holds one of the characters of invalid_chars
HasInvalidChar(h) == h = "s'2"

HeaderLists ==
    {hs \in SeqsUpTo(Headers, MaxCols) : \A i, j \in 1..Len(hs) : hs[i] = hs[j] => i = j}

Sheets == {[present |-> FALSE, headers |-> <<>>]}
             \cup {[present |-> TRUE, headers |-> hs] : hs \in HeaderLists}

\* clean_column_headers: the cleaned headers, or the ValueError it raises
clean_column_headers(headers) ==
    LET cleaned == [i \in 1..Len(headers) |-> CleanHeader(headers[i])]
    IN  IF \E i \in 1..Len(cleaned) : HasInvalidChar(cleaned[i])
        THEN [raised |-> "ValueError", columns |-> <<>>]
        ELSE [raised |-> "", columns |-> cleaned]

\* pool_columns == lingress_columns, on Python lists
SameColumns(pool_columns, lingress_columns) == pool_columns = lingress_columns

process_lingress_data(pool_sheet, lingress_sheet) ==
    IF ~pool_sheet.present THEN [outcome |-> "None", columns |-> <<>>]
    ELSE IF ~lingress_sheet.present THEN [outcome |-> "None", columns |-> <<>>]
    ELSE LET df_pool == clean_column_headers(pool_sheet.headers)
             df_lingress == clean_column_headers(lingress_sheet.headers)
         IN  IF df_pool.raised # "" \/ df_lingress.raised # ""
             THEN [outcome |-> "ValueError", columns |-> <<>>]
             ELSE IF SameColumns(df_pool.columns, df_lingress.columns)
             THEN [outcome |-> "json", columns |-> df_lingress.columns]
             ELSE [outcome |-> "None", columns |-> <<>>]

InitUpload ==
    /\ args \in [fn : {"process_lingress_data"}, pool : Sheets, lingress : Sheets]
    /\ result = <<>>
    /\ pc = "process_lingress_data"

ProcessLingressData ==
    /\ pc = "process_lingress_data"
    /\ result' = process_lingress_data(args.pool, args.lingress)
    /\ pc' = "done"
    /\ UNCHANGED args

SpecUpload == InitUpload /\ [][ProcessLingressData]_vars

\* the cleaned headers of a sheet
Cleaned(sheet) == [i \in 1..Len(sheet.headers) |-> CleanHeader(sheet.headers[i])]

\* C20: process_lingress_data accepts the external-variable table (returns
\* its JSON) exactly when the set of its columns after the first equals the
\* set of the pool table's sample columns, independent of column order, and
\* returns None otherwise.
C20_AcceptedIffSameColumnSet ==
    Returned("process_lingress_data") =>
        LET same == /\ args.pool.present
                    /\ args.lingress.present
                    /\ Range(Cleaned(args.lingress)) = Range(Cleaned(args.pool))
        IN  /\ result.outcome = "json" <=> same
            /\ ~same => result.outcome = "None"

\* with headers free of quote characters, the table is accepted exactly when
\* both sheets are there and the two cleaned header lists are equal, position
\* by position, and the answer is None otherwise
C20_HoldsForListEquality ==
    (/\ Returned("process_lingress_data")
     /\ \A h \in Range(args.pool.headers) \cup Range(args.lingress.headers) :
           ~HasInvalidChar(h))
        => LET same == /\ args.pool.present
                       /\ args.lingress.present
                       /\ Cleaned(args.lingress) = Cleaned(args.pool)
           IN  /\ result.outcome = "json" <=> same
               /\ result.outcome = "json" => result.columns = Cleaned(args.lingress)
               /\ ~same => result.outcome = "None"

(***************************************************************************)
(* Sample-group construction: the update-groups button, then the Update    *)
(* button of the data order grid.                                          *)
(*                                                                         *)
(* result holds the stores store-met-groups and store-data-order and the   *)
(* rowData of the grid; args holds the inputs of the two handlers.         *)
(***************************************************************************)
GroupInputValues == [LingressSamples -> GroupKeys \cup {""}]

\* the orders of a set of column ids
ColumnOrders(S) ==
    {o \in [1..Cardinality(S) -> S] : \A i, j \in 1..Cardinality(S) : o[i] = o[j] => i = j}

InitGroups ==
    /\ args \in [fn : {"store_met_groups"},
                 input_values : GroupInputValues,
                 column_state : {<<>>}]
    /\ result = [met_groups |-> <<>>, data_order |-> <<>>, grid |-> <<>>]
    /\ pc = "update-groups"

\* update-groups: store_met_groups writes store-met-groups unless every
\* input is empty; the write triggers generate_data_order_selection, which
\* fills the grid, and store_data_order_selection, which copies the groups
StoreMetGroups ==
    /\ pc = "update-groups"
    /\ IF \A s \in LingressSamples : args.input_values[s] = ""
       THEN result' = result
       ELSE LET grouped_values == store_met_groups(LingressCols, args.input_values)
            IN  result' = [met_groups |-> grouped_values,
                           data_order |-> grouped_values,
                           grid |-> GridRows(grouped_values)]
    /\ pc' = "grouped"
    /\ UNCHANGED args

\* update-data-order: the columns of the grid are in the order the user
\* dragged them to
StoreDataOrderSelection ==
    /\ pc = "grouped"
    /\ \E column_state \in ColumnOrders(Range(Keys(result.met_groups))) :
          /\ args' = [args EXCEPT !.column_state = column_state]
          /\ result' = [result EXCEPT
                           !.data_order = store_data_order_selection(column_state, result.grid)]
    /\ pc' = "done"

NextGroups == StoreMetGroups \/ StoreDataOrderSelection

SpecGroups == InitGroups /\ [][NextGroups]_vars

\* every sample is in at most one group and at most once in it, and every
\* group has a non-empty name, a name of its own and a non-empty sample list
WellFormedGroups(groups) ==
    /\ \A g, h \in 1..Len(groups) :
          \A i \in 1..Len(groups[g].samples) : \A j \in 1..Len(groups[h].samples) :
              groups[g].samples[i] = groups[h].samples[j] => (g = h /\ i = j)
    /\ \A g \in 1..Len(groups) :
          /\ groups[g].name # ""
          /\ groups[g].samples # <<>>
          /\ \A h \in 1..Len(groups) : groups[h].name = groups[g].name => h = g

\* the position among the sample inputs of the first input that holds name
FirstInput(name) ==
    CHOOSE i \in 1..Len(LingressCols) :
        /\ args.input_values[LingressCols[i]] = name
        /\ \A j \in 1..(i - 1) : args.input_values[LingressCols[j]] # name

\* the keys are the names typed into the inputs, in the order of their first
\* occurrence, and a group holds the samples whose input holds its name
FirstOccurrenceOrder(groups) ==
    /\ {groups[g].name : g \in 1..Len(groups)}
          = {args.input_values[s] : s \in LingressSamples} \ {""}
    /\ \A g, h \in 1..Len(groups) :
          g < h => FirstInput(groups[g].name) < FirstInput(groups[h].name)
    /\ \A g \in 1..Len(groups) :
          Range(groups[g].samples)
              = {s \in LingressSamples : args.input_values[s] = groups[g].name}

\* C19: sample-group construction: after store_met_groups and after
\* store_data_order_selection, every sample column appears in at most one
\* group and at most once within it, every group has a non-empty name and a
\* non-empty sample list, and the key order is the order of first occurrence
\* (store_met_groups) or the grid column order (store_data_order_selection).
C19_GroupsWellFormedAndOrdered ==
    /\ pc \in {"grouped", "done"} /\ args.fn = "store_met_groups" =>
          /\ WellFormedGroups(result.met_groups)
          /\ WellFormedGroups(result.data_order)
          /\ result.met_groups # <<>> => FirstOccurrenceOrder(result.met_groups)
    /\ pc = "grouped" /\ args.fn = "store_met_groups" =>
          result.data_order = result.met_groups
    /\ pc = "done" /\ args.fn = "store_met_groups" =>
          /\ Keys(result.data_order) = args.column_state
          /\ \A k \in 1..Len(result.data_order) :
                \E g \in 1..Len(result.met_groups) :
                    result.met_groups[g] = result.data_order[k]

\* s1 and s3 are in A and s2 in B; the user drags column B before column A
C19_Witness ==
    /\ pc = "done"
    /\ args.fn = "store_met_groups"
    /\ result.met_groups = <<[name |-> "A", samples |-> <<"s1", "s3">>],
                             [name |-> "B", samples |-> <<"s2">>]>>
    /\ result.data_order = <<[name |-> "B", samples |-> <<"s2">>],
                             [name |-> "A", samples |-> <<"s1", "s3">>]>>

\* C21: normalization is column-local: for any table, normalization list N
\* and two group selections G1 and G2 that both contain sample column c,
\* normalize(T, G1, N) and normalize(T, G2, N) have the same remaining rows
\* and give the same value in column c for each of them.
C21_NormalizeColumnLocal ==
    Returned("normalize_met_pool_data") =>
        \A G2 \in NormGroupChoices :
            LET other == normalize_met_pool_data(args.df_pool, G2, args.normalization_list)
            IN  /\ Len(other.rows) = Len(result.rows)
                /\ \A k \in 1..Len(result.rows) :
                      /\ other.rows[k].Compound = result.rows[k].Compound
                      /\ \A c \in Range(result.columns) \cap Range(other.columns) :
                            other.rows[k].vals[c] = result.rows[k].vals[c]

\* column s2 alone was selected; std is 2 in s2 and 1 in s1, and glucose is 1
\* in s2, so that glucose / s2 is 1/2 whether or not s1 is selected with it
C21_Witness ==
    /\ Returned("normalize_met_pool_data")
    /\ result.columns = <<"s2">>
    /\ args.normalization_list = {"std"}
    /\ \E i \in 1..Len(args.df_pool.rows) :
          /\ args.df_pool.rows[i].Compound = "std"
          /\ args.df_pool.rows[i].vals["s2"] = 2
          /\ args.df_pool.rows[i].vals["s1"] = 1
    /\ \E k \in 1..Len(result.rows) : result.rows[k].vals["s2"] = [n |-> 1, d |-> 2]

(***************************************************************************)
(* add_nd_annotations_and_update_values on the control-relative heatmap    *)
(*                                                                         *)
(* The z data of the heatmap are the cells that                            *)
(* transform_log2_and_adjust_control_data returns for the rows of the      *)
(* heatmap.  A cell position is <<row, sample>>.  The rows of one heatmap  *)
(* carry different compound names.                                         *)
(***************************************************************************)
HeatmapTables == {df \in HeatTables : UniqueCompounds(df) /\ df # <<>>}

add_nd_annotations_and_update_values(z, ctrl_cols) ==
    LET cells == {<<y, x>> : y \in 1..Len(z), x \in Samples}
        \* first pass: 'nd' on every cell whose value is 0
        nd_annotated_cells == {p \in cells : z[p[1]].vals[p[2]] = 0}
        \* second pass: the rows whose control values are all 0
        AllZero(y) == \A k \in 1..Len(ctrl_cols) : z[y].vals[ctrl_cols[k]] = 0
        red == IF ctrl_cols = <<>> THEN {}
               ELSE {p \in cells : AllZero(p[1]) /\ p \notin nd_annotated_cells}
    IN  [nd |-> nd_annotated_cells,
         red |-> red,
         z |-> [y \in 1..Len(z) |->
                  [Compound |-> z[y].Compound,
                   vals |-> [x \in Samples |->
                               IF <<y, x>> \in red THEN 0 ELSE z[y].vals[x]]]]]

InitHeatmap ==
    /\ args \in [fn : {"generate_individual_heatmap"},
                 df : HeatmapTables,
                 grouped_samples : HeatGroupChoices,
                 ctrl_group : {"ctrl"}]
    /\ result = <<>>
    /\ pc = "heatmap"

\* display_bulk_heatmap_plot: the table is transformed, drawn, and annotated
GenerateIndividualHeatmap ==
    /\ pc = "heatmap"
    /\ result' = add_nd_annotations_and_update_values(
                     transform_log2_and_adjust_control_data(
                         args.df, args.grouped_samples, args.ctrl_group),
                     GroupSamples(args.grouped_samples, args.ctrl_group))
    /\ pc' = "done"
    /\ UNCHANGED args

SpecHeatmap == InitHeatmap /\ [][GenerateIndividualHeatmap]_vars

\* the raw control cells of row y
RawCtrl(y) ==
    LET ctrl_cols == GroupSamples(args.grouped_samples, args.ctrl_group)
    IN  {args.df[y].vals[ctrl_cols[k]] : k \in 1..Len(ctrl_cols)}

\* C22: in the control-relative heatmap a cell carries the 'nd' annotation
\* if and only if its raw value was exactly 0, and a row is overwritten with
\* zeros and red '0' only when all its control raw values were 0.
C22_NdIffRawZero ==
    Returned("generate_individual_heatmap") =>
        /\ \A y \in 1..Len(args.df) : \A x \in Samples :
              <<y, x>> \in result.nd <=> args.df[y].vals[x] = 0
        /\ \A p \in result.red : RawCtrl(p[1]) = {0}

\* every raw 0 is annotated 'nd', 'nd' marks exactly the cells whose
\* transformed value is 0, and a row whose control raw values are all 0 has
\* every other cell overwritten
C22_HoldsForTransformedValue ==
    Returned("generate_individual_heatmap") =>
        LET z == transform_log2_and_adjust_control_data(
                     args.df, args.grouped_samples, args.ctrl_group)
        IN  \A y \in 1..Len(args.df) : \A x \in Samples :
                /\ args.df[y].vals[x] = 0 => <<y, x>> \in result.nd
                /\ <<y, x>> \in result.nd <=> z[y].vals[x] = 0
                /\ RawCtrl(y) = {0} => (<<y, x>> \in result.nd \/ <<y, x>> \in result.red)
                /\ result.z[y].vals[x] = (IF <<y, x>> \in result.red THEN 0 ELSE z[y].vals[x])

\* the sum and the number of the non-zero control cells of input row i
NonZeroCtrlSum(i) ==
    LET ctrl_cols == GroupSamples(args.grouped_samples, args.ctrl_group)
        f[k \in 0..Len(ctrl_cols)] ==
            IF k = 0 THEN 0 ELSE f[k - 1] + args.df[i].vals[ctrl_cols[k]]
    IN  f[Len(ctrl_cols)]

NonZeroCtrlCount(i) ==
    LET ctrl_cols == GroupSamples(args.grouped_samples, args.ctrl_group)
    IN  Cardinality({k \in 1..Len(ctrl_cols) : args.df[i].vals[ctrl_cols[k]] # 0})

\* C23: transform_log2_and_adjust_control_data (compound names all
\* different): the control average of a row is the arithmetic mean of its
\* non-zero control cells only, so a cell v with log2(v) # 0 comes out as
\* log2(v) - log2(mean); when all control cells of the row are 0 the average
\* and its log2 are 0 and every non-zero cell comes out as log2(v); the
\* output rows hold the compound and the sample cells, and no ctrl_avg.
C23_ControlAverageOfNonZeroCells ==
    (Returned("transform_log2_and_adjust_control_data") /\ UniqueCompounds(args.df)) =>
        /\ Len(result) = Len(args.df)
        /\ \A i \in 1..Len(args.df) :
              /\ DOMAIN result[i] = {"Compound", "vals"}
              /\ DOMAIN result[i].vals = Samples
              /\ \A c \in Samples :
                    LET v == args.df[i].vals[c]
                    IN  IF NonZeroCtrlCount(i) = 0
                        THEN v # 0 => result[i].vals[c] = Log2m(v)
                        ELSE v > 1 =>
                               result[i].vals[c]
                                  = Log2m(v) - (Log2m(NonZeroCtrlSum(i))
                                                   - Log2m(NonZeroCtrlCount(i)))

\* the control cells of glucose are 0 and 4: the mean of the non-zero cells
\* is 4, and the cell 4 comes out as 0 (it would be 1 with the zero counted)
C23_Witness ==
    /\ Returned("transform_log2_and_adjust_control_data")
    /\ Len(args.df) = 1
    /\ GroupSamples(args.grouped_samples, args.ctrl_group) = <<"s1", "s2">>
    /\ args.df[1].vals = [s1 |-> 0, s2 |-> 4]
    /\ result[1].vals = [s1 |-> 0, s2 |-> 0]

\* the one control cell of glucose is 0: the other cell keeps its log2
C23_ZeroControlWitness ==
    /\ Returned("transform_log2_and_adjust_control_data")
    /\ Len(args.df) = 1
    /\ GroupSamples(args.grouped_samples, args.ctrl_group) = <<"s1">>
    /\ args.df[1].vals = [s1 |-> 0, s2 |-> 4]
    /\ result[1].vals = [s1 |-> 0, s2 |-> 2000]

\* np.var(s) is below the floor 1e-8
VarBelowFloor(s) == VarQ(s) < VarianceThreshold * Len(s) * Len(s)

\* C24: variance-floor guard: in every call path the test returns NaN for
\* the variance exactly when the variance of a compared group is below 1e-8,
\* and computes a p-value when both variances are at least that floor and
\* the other guards pass; the download path and the plot paths apply the
\* same floor to the same quantity.
C24_SameVarianceFloor ==
    Returned("ttest") =>
        /\ result.path = "download" /\ Len(args.y0) >= 2 /\ Len(args.y1) >= 2 =>
              (result.reason = "variance < 1E-08"
                  <=> (VarBelowFloor(args.y0) \/ VarBelowFloor(args.y1)))
        /\ result.path \in {"volcano", "heatmap"} =>
              LET a == NonZero(args.y0)
                  b == NonZero(args.y1)
              IN  Len(a) >= 2 /\ Len(b) >= 2 =>
                      (result.pvalue = NaN <=> (VarBelowFloor(a) \/ VarBelowFloor(b)))

\* what the two paths test: the download path refuses a group whose standard
\* deviation is below 1e-5, the plot paths one whose variance is not above
\* 1e-8
C24_FloorsAsCoded ==
    Returned("ttest") =>
        /\ result.path = "download" /\ Len(args.y0) >= 2 /\ Len(args.y1) >= 2 =>
              (result.reason = "variance < 1E-08"
                  <=> (\/ StdBelow(args.y0, StdThresholdDownload)
                       \/ StdBelow(args.y1, StdThresholdDownload)))
        /\ result.path \in {"volcano", "heatmap"} =>
              LET a == NonZero(args.y0)
                  b == NonZero(args.y1)
              IN  Len(a) >= 2 /\ Len(b) >= 2 =>
                      (result.pvalue = NaN
                          <=> ~(VarAbove(a, VarianceThreshold) /\ VarAbove(b, VarianceThreshold)))

\* C25: Bonferroni correction: for every input list with m valid (non-NaN)
\* p-values, each corrected value equals min(1, m * p) for its input p,
\* hence is at least the input value and at most 1.
C25_BonferroniScalesAndCaps ==
    (Returned("apply_pvalue_correction") /\ args.correction_method = "bonferroni") =>
        LET m == Cardinality({i \in 1..Len(args.pvalues) : args.pvalues[i] # NaN})
        IN  \A i \in 1..Len(args.pvalues) :
                args.pvalues[i] # NaN =>
                    /\ result.corrected[i] = (IF m * args.pvalues[i] < One
                                              THEN m * args.pvalues[i] ELSE One)
                    /\ result.corrected[i] >= args.pvalues[i]
                    /\ result.corrected[i] <= One

\* two valid values around a NaN: 0.01 is doubled, 0.5 is cut at 1
C25_Witness ==
    /\ Returned("apply_pvalue_correction")
    /\ args.correction_method = "bonferroni"
    /\ args.pvalues = <<10, NaN, 500>>
    /\ result.corrected = <<20, NaN, One>>

\* the rows of the output are the ratios of the list that satisfy Keep, in
\* list order, each named '<numerator> / <denominator>' and classed
\* 'metabolite ratios'
RatioRowsAre(Keep(_)) ==
    LET kept == SelectSeq(args.ratio_list, Keep)
    IN  /\ result.error = ""
        /\ Len(result.df_ratios) = Len(kept)
        /\ \A k \in 1..Len(kept) :
              /\ result.df_ratios[k].Compound = <<kept[k].numerator, "/", kept[k].denominator>>
              /\ result.df_ratios[k].pathway_class = "metabolite ratios"

C26_OrderWitness ==
    /\ Returned("compile_met_pool_ratio_data")
    /\ Len(result.df_ratios) = 2
    /\ result.df_ratios[1].Compound = <<"lactate", "/", "glucose">>
    /\ result.df_ratios[2].Compound = <<"glucose", "/", "lactate">>

(***************************************************************************)
(* download_sheet_w_options                                                *)
(*                                                                         *)
(* The stores are None or hold a table; the external-variable table is     *)
(* given by the number of its rows, one sheet each.  The regression of a   *)
(* row is modelled with lingress_download above; here a sheet is the       *)
(* columns and the number of rows it is written with.  store-data-lingress *)
(* is only filled while store-data-pool is.                                *)
(***************************************************************************)
\* the value None of a store or of a function result
NoData == [none |-> TRUE]

DownloadTables ==
    { [columns |-> SampleCols,
       rows |-> <<[Compound |-> "std", vals |-> [s1 |-> 2, s2 |-> 1]],
                  [Compound |-> "glucose", vals |-> [s1 |-> 1, s2 |-> 2]]>>],
      [columns |-> SampleCols,
       rows |-> <<[Compound |-> "glucose", vals |-> [s1 |-> 0, s2 |-> 2]]>>] }

StoredGroups ==
    { <<>>,
      <<[name |-> "A", samples |-> <<"s1">>], [name |-> "B", samples |-> <<"s2">>]>>,
      <<[name |-> "A", samples |-> <<"s2">>]>> }

\* the table, or None for no met_classes or an empty group mapping ('all' is
\* a non-empty string)
get_download_df_normalized_pool(df_pool, met_classes, normalization_selected, grouped_samples) ==
    IF met_classes = {} THEN NoData
    ELSE IF ~grouped_samples.all /\ grouped_samples.groups = <<>> THEN NoData
    ELSE normalize_met_pool_data(df_pool, grouped_samples, normalization_selected)

\* get_download_df_lingress for one row of the external-variable table: the
\* exception it ends with, or the sheet
LingressSheet(df_pool, met_classes, normalization_selected, grouped_samples) ==
    LET df_pool_normalized_grouped ==
            get_download_df_normalized_pool(df_pool, met_classes,
                                            normalization_selected, grouped_samples)
    IN  IF grouped_samples.all
        THEN \* grouped_samples.values() on the string 'all'
             [error |-> "AttributeError", sheet |-> <<>>]
        ELSE IF df_pool_normalized_grouped = NoData
        THEN \* None.iterrows()
             [error |-> "AttributeError", sheet |-> <<>>]
        ELSE [error |-> "",
              sheet |-> [name |-> "Lingress Data",
                         columns |-> FlattenSamples(grouped_samples.groups),
                         rows |-> Len(df_pool_normalized_grouped.rows)]]

download_sheet_w_options(download_config, pool_data, lingress_data, met_groups_selected) ==
    LET met_classes == download_config.met_classes
        normalization_list == download_config.normalization
        grouped_samples == IF download_config.metabolite_groups = "selected"
                           THEN Groups(met_groups_selected.groups)
                           ELSE GroupsAll
        normalized == get_download_df_normalized_pool(pool_data, met_classes,
                                                      normalization_list, grouped_samples)
        pool_sheets ==
            IF ~download_config.download_pool THEN [outcome |-> "", sheets |-> <<>>]
            ELSE IF pool_data = NoData THEN [outcome |-> "toast error", sheets |-> <<>>]
            ELSE IF normalized = NoData
            THEN \* None.to_excel(...)
                 [outcome |-> "AttributeError", sheets |-> <<>>]
            ELSE [outcome |-> "",
                  sheets |-> <<[name |-> "PoolAfterDF", columns |-> pool_data.columns,
                                rows |-> Len(pool_data.rows)],
                               [name |-> "Normalized Pool", columns |-> normalized.columns,
                                rows |-> Len(normalized.rows)]>>]
        one == LingressSheet(pool_data, met_classes, normalization_list, grouped_samples)
        lingress_sheets ==
            IF ~download_config.download_lingress THEN [outcome |-> "", sheets |-> <<>>]
            ELSE IF lingress_data = NoData THEN [outcome |-> "toast error", sheets |-> <<>>]
            ELSE IF lingress_data.rows = 0 THEN [outcome |-> "", sheets |-> <<>>]
            ELSE IF one.error # "" THEN [outcome |-> one.error, sheets |-> <<>>]
            ELSE [outcome |-> "", sheets |-> [k \in 1..lingress_data.rows |-> one.sheet]]
    IN  IF download_config.metabolite_groups = "selected" /\ met_groups_selected = NoData
        THEN [outcome |-> "toast error", sheets |-> <<>>]
        ELSE IF pool_sheets.outcome # "" THEN pool_sheets
        ELSE IF lingress_sheets.outcome # ""
        THEN [outcome |-> lingress_sheets.outcome, sheets |-> <<>>]
        ELSE [outcome |-> "success", sheets |-> pool_sheets.sheets \o lingress_sheets.sheets]

InitDownload ==
    /\ args \in [fn : {"download_sheet_w_options"},
                 download_config : [metabolite_groups : {"selected", "all"},
                                    met_classes : {{}, {"glycolysis"}},
                                    normalization : {{}, {"std"}},
                                    download_pool : BOOLEAN,
                                    download_lingress : BOOLEAN],
                 pool_data : DownloadTables \cup {NoData},
                 lingress_data : [rows : 0..MaxVariables] \cup {NoData},
                 met_groups_selected : [groups : StoredGroups] \cup {NoData}]
    /\ args.lingress_data # NoData => args.pool_data # NoData
    /\ result = <<>>
    /\ pc = "download_sheet_w_options"

DownloadSheetWOptions ==
    /\ pc = "download_sheet_w_options"
    /\ result' = download_sheet_w_options(args.download_config, args.pool_data,
                                          args.lingress_data, args.met_groups_selected)
    /\ pc' = "done"
    /\ UNCHANGED args

SpecDownload == InitDownload /\ [][DownloadSheetWOptions]_vars

\* C27: download with the 'all sample replicates' option: every stage that
\* download_sheet_w_options reaches handles the marker 'all' by using every
\* sample column and completes without an uncaught exception, for pool and
\* for lingress downloads.
C27_AllMarkerHandled ==
    (/\ Returned("download_sheet_w_options")
     /\ args.download_config.metabolite_groups = "all"
     /\ args.download_config.met_classes # {})
        => /\ result.outcome \in {"success", "toast error"}
           /\ \A k \in 1..Len(result.sheets) :
                 result.sheets[k].columns = args.pool_data.columns

\* the pool download with 'all' completes and writes every sample column
C27_HoldsForPoolDownload ==
    (/\ Returned("download_sheet_w_options")
     /\ args.download_config.metabolite_groups = "all"
     /\ args.download_config.met_classes # {}
     /\ \/ ~args.download_config.download_lingress
        \/ args.lingress_data \in {NoData, [rows |-> 0]})
        => /\ result.outcome \in {"success", "toast error"}
           /\ \A k \in 1..Len(result.sheets) :
                 result.sheets[k].columns = args.pool_data.columns
           /\ (args.download_config.download_pool /\ args.pool_data # NoData
                  /\ result.outcome = "success")
                 => Len(result.sheets) = 2

\* one output row per input row, in input order, each adjusted by the control
\* average of that same row (read off the cells the subtraction reaches)
RowForRow ==
    /\ Len(result) = Len(args.df)
    /\ \A i \in 1..Len(args.df) :
          /\ result[i].Compound = args.df[i].Compound
          /\ \A c \in Samples :
                LET v == args.df[i].vals[c]
                    ctrl == CtrlAvgLog2(args.df[i],
                                        GroupSamples(args.grouped_samples, args.ctrl_group))
                IN  result[i].vals[c] = IF v <= 1 THEN 0 ELSE Log2m(v) - ctrl

\* C28: transform_log2_and_adjust_control_data returns exactly one output row
\* per input row, in input order, each adjusted by the control average
\* computed from that same row, also when a compound name occurs in several
\* input rows.
C28_OneRowPerInputRow ==
    Returned("transform_log2_and_adjust_control_data") => RowForRow

\* the same when the rows that share a compound name have the same control
\* average, as the rows of one compound listed in two pathway classes have
C28_HoldsForEqualControlAverages ==
    (/\ Returned("transform_log2_and_adjust_control_data")
     /\ \A i, j \in 1..Len(args.df) :
           args.df[i].Compound = args.df[j].Compound =>
               LET ctrl_cols == GroupSamples(args.grouped_samples, args.ctrl_group)
               IN  CtrlAvgLog2(args.df[i], ctrl_cols) = CtrlAvgLog2(args.df[j], ctrl_cols))
        => RowForRow

(***************************************************************************)
(* The clicked-points store of the volcano plot.                           *)
(*                                                                         *)
(* A point of the plot is named by its metabolite; its coordinates follow  *)
(* from the name while the plotted data stay the same.  The stored figure  *)
(* has the main trace with every point and, while a metabolite is selected *)
(* in the search dropdown, a second trace with that one point.  result     *)
(* holds store-volcano-clicked-datapoints, the search value, whether a     *)
(* figure is stored, and the number of events so far.                      *)
(***************************************************************************)
VolcanoPoints == <<"m1", "m2", "m3">>

\* abs(x) >= FC_cutoff and y >= pvalue_threshold
SignificantPoint(p) == p \in {"m1", "m2"}

\* fig_data['data']: the traces of generate_volcano_plot
Traces(search_value) ==
    IF search_value = "" THEN <<VolcanoPoints>> ELSE <<VolcanoPoints, <<search_value>>>>

\* list.remove(x): the first occurrence taken out
RemoveFirst(s, x) ==
    LET k == CHOOSE k \in 1..Len(s) : s[k] = x /\ \A j \in 1..(k - 1) : s[j] # x
    IN  SubSeq(s, 1, k - 1) \o SubSeq(s, k + 1, Len(s))

\* the branch of volcano-click-significant-points
click_significant_points(stored_points, fig_data) ==
    LET significant_points == SelectSeq(Concat(fig_data), SignificantPoint)
        Unmarked(pt) == pt \notin Range(stored_points)
        unmarked_significant_points == SelectSeq(significant_points, Unmarked)
        NotSignificant(pt) == pt \notin Range(significant_points)
    IN  IF unmarked_significant_points # <<>>
        THEN stored_points \o unmarked_significant_points
        ELSE SelectSeq(stored_points, NotSignificant)

\* the branch of a click on a point of the plot
click_point(stored_points, new_point) ==
    IF new_point \in Range(stored_points)
    THEN RemoveFirst(stored_points, new_point)
    ELSE Append(stored_points, new_point)

InitVolcano ==
    /\ args = [fn |-> "update_stored_on_click_datapoints"]
    /\ result = [stored_points |-> <<>>, search_value |-> "", plotted |-> FALSE, steps |-> 0]
    /\ pc = "volcano"

\* generate-volcano-plot: display_volcano_plot stores a new figure and
\* update_stored_on_click_datapoints, which needs a stored figure, returns []
GenerateVolcanoPlot ==
    /\ pc = "volcano"
    /\ result.steps < MaxVolcanoEvents
    /\ result' = [result EXCEPT !.stored_points = IF result.plotted THEN <<>> ELSE @,
                                !.plotted = TRUE,
                                !.steps = @ + 1]
    /\ UNCHANGED <<args, pc>>

\* volcano-search-dropdown: display_volcano_plot stores the figure again,
\* with the highlighted trace; the clicked points are left alone
SearchVolcano ==
    /\ pc = "volcano"
    /\ result.steps < MaxVolcanoEvents
    /\ \E search_value \in Range(VolcanoPoints) \cup {""} :
          /\ search_value # result.search_value
          /\ result' = [result EXCEPT !.search_value = search_value,
                                      !.plotted = TRUE,
                                      !.steps = @ + 1]
    /\ UNCHANGED <<args, pc>>

ClickVolcanoPoint ==
    /\ pc = "volcano"
    /\ result.steps < MaxVolcanoEvents
    /\ result.plotted
    /\ \E new_point \in Range(Concat(Traces(result.search_value))) :
          result' = [result EXCEPT !.stored_points = click_point(@, new_point),
                                   !.steps = @ + 1]
    /\ UNCHANGED <<args, pc>>

ClickSignificantPoints ==
    /\ pc = "volcano"
    /\ result.steps < MaxVolcanoEvents
    /\ result.plotted
    /\ result' = [result EXCEPT
                     !.stored_points = click_significant_points(@, Traces(result.search_value)),
                     !.steps = @ + 1]
    /\ UNCHANGED <<args, pc>>

NextVolcano ==
    \/ GenerateVolcanoPlot
    \/ SearchVolcano
    \/ ClickVolcanoPoint
    \/ ClickSignificantPoints

SpecVolcano == InitVolcano /\ [][NextVolcano]_vars

\* C29: after any sequence of events (generate plot, click on a point, click
\* 'mark significant points'), the stored point list contains no duplicate
\* entries.
C29_NoDuplicatePoints ==
    args.fn = "update_stored_on_click_datapoints" =>
        \A i, j \in 1..Len(result.stored_points) :
            result.stored_points[i] = result.stored_points[j] => i = j

\* from a list without duplicates: a generate event empties the list, a click
\* on a point toggles its membership, and, while no metabolite is
\* highlighted, the button adds all unmarked significant points or, when all
\* are marked, removes all of them, and the list stays free of duplicates
C29_HoldsWithoutHighlight ==
    [][(/\ args.fn = "update_stored_on_click_datapoints"
        /\ NoDuplicates(result.stored_points))
       => LET old == Range(result.stored_points)
              new == Range(result'.stored_points)
              sig == {p \in Range(VolcanoPoints) : SignificantPoint(p)}
          IN  /\ (GenerateVolcanoPlot /\ result.plotted) => result'.stored_points = <<>>
              /\ ClickVolcanoPoint =>
                    /\ NoDuplicates(result'.stored_points)
                    /\ \E p \in Range(VolcanoPoints) :
                          new = (IF p \in old THEN old \ {p} ELSE old \cup {p})
              /\ (ClickSignificantPoints /\ result.search_value = "") =>
                    /\ NoDuplicates(result'.stored_points)
                    /\ new = (IF sig \subseteq old THEN old \ sig ELSE old \cup sig)]_vars

(***************************************************************************)
(* The three upload stores.                                                *)
(*                                                                         *)
(* An uploaded workbook is described by what its three sheets make the     *)
(* processing functions do; id numbers the uploads.  A store holds NoData  *)
(* or the id of the upload its content was derived from.  A callback that  *)
(* raises leaves its Output as it was.  store_metabolomics_iso_data and    *)
(* store_lingress_data have the upload contents as an Input, so they run   *)
(* on every upload, after store_metabolomics_pool_data, with the pool      *)
(* store as it then is.                                                    *)
(***************************************************************************)
PoolSheets == {"ok", "missing", "wrong first column", "quoted header"}
IsoSheets == {"ok", "missing", "wrong first column"}
LingressSheets == {"ok", "missing", "quoted header"}

Workbooks == [PoolAfterDF : PoolSheets, Normalized : IsoSheets, Lingress : LingressSheets]

\* process_pool_data: the JSON of the pool table, or the ValueError of
\* read_excel_file, validate_column_names or clean_column_headers
process_pool_data(contents) ==
    IF contents.PoolAfterDF = "ok" THEN "json" ELSE "ValueError"

\* process_iso_data: None without a Normalized sheet, the ValueError of
\* validate_column_names, or the JSON of the isotopologue table
process_iso_data(contents) ==
    CASE contents.Normalized = "missing" -> "None"
      [] contents.Normalized = "wrong first column" -> "ValueError"
      [] OTHER -> "json"

\* process_lingress_data on the PoolAfterDF and Lingress sheets of the
\* uploaded workbook (the first column of PoolAfterDF is not validated)
process_workbook_lingress(contents) ==
    CASE contents.PoolAfterDF = "missing" -> "None"
      [] contents.Lingress = "missing" -> "None"
      [] contents.PoolAfterDF = "quoted header" -> "ValueError"
      [] contents.Lingress = "quoted header" -> "ValueError"
      [] OTHER -> "json"

\* the value of an Output after its callback: None, the new JSON, or the old
\* value when the callback raised
StoreAfter(old, outcome, id) ==
    CASE outcome = "None" -> NoData
      [] outcome = "json" -> [file |-> id]
      [] OTHER -> old

store_metabolomics_pool_data(contents) ==
    IF contents # NoData THEN process_pool_data(contents) ELSE "None"

store_metabolomics_iso_data(contents, stored_pool_data) ==
    IF contents # NoData /\ stored_pool_data # NoData
    THEN process_iso_data(contents) ELSE "None"

store_lingress_data(contents, stored_pool_data) ==
    IF contents # NoData /\ stored_pool_data # NoData
    THEN process_workbook_lingress(contents) ELSE "None"

InitStores ==
    /\ args = [fn |-> "store_metabolomics_pool_data"]
    /\ result = [pool |-> NoData, iso |-> NoData, lingress |-> NoData,
                 uploads |-> 0, raised |-> FALSE]
    /\ pc = "upload"

\* a change of upload-data.contents and the three callbacks it triggers
UploadData ==
    /\ pc = "upload"
    /\ result.uploads < MaxUploads
    /\ \E contents \in Workbooks \cup {NoData} :
          LET id == result.uploads + 1
              pool_outcome == store_metabolomics_pool_data(contents)
              pool == StoreAfter(result.pool, pool_outcome, id)
              iso_outcome == store_metabolomics_iso_data(contents, pool)
              lingress_outcome == store_lingress_data(contents, pool)
          IN  result' = [pool |-> pool,
                         iso |-> StoreAfter(result.iso, iso_outcome, id),
                         lingress |-> StoreAfter(result.lingress, lingress_outcome, id),
                         uploads |-> id,
                         raised |-> "ValueError" \in {pool_outcome, iso_outcome,
                                                       lingress_outcome}]
    /\ UNCHANGED <<args, pc>>

SpecStores == InitStores /\ [][UploadData]_vars

\* C30: after any sequence of uploads, store-data-iso and store-data-lingress
\* are non-null only if store-data-pool is non-null, and all non-null stores
\* were derived from the same uploaded file contents.
C30_StoresConsistent ==
    args.fn = "store_metabolomics_pool_data" =>
        /\ (result.iso # NoData \/ result.lingress # NoData) => result.pool # NoData
        /\ \A s, t \in {result.pool, result.iso, result.lingress} \ {NoData} : s = t

\* the derived stores are non-null only if the pool store is, and after an
\* upload on which no callback raised every non-null store holds that upload
C30_HoldsWhenNothingRaises ==
    args.fn = "store_metabolomics_pool_data" =>
        /\ (result.iso # NoData \/ result.lingress # NoData) => result.pool # NoData
        /\ ~result.raised =>
              \A s \in {result.pool, result.iso, result.lingress} \ {NoData} :
                  s.file = result.uploads

--------------------------------------------------------------------------
Init == InitNormalize \/ InitLog2 \/ InitCorrection \/ InitTTest
        \/ InitCorrected \/ InitRatio \/ InitGroup \/ InitLingress
        \/ InitLingressBatch \/ InitColor \/ InitComparisons
        \/ InitSession \/ InitSignificance \/ InitUpload
        \/ InitGroups \/ InitHeatmap \/ InitDownload
        \/ InitVolcano \/ InitStores

Next ==
    \/ Normalize
    \/ TransformLog2
    \/ ApplyCorrection
    \/ ApplyCorrectionDownload
    \/ NextTTest
    \/ NextCorrected
    \/ CompileRatio
    \/ GroupMetPool
    \/ NextLingress
    \/ DownloadLingress
    \/ AssignColor
    \/ NextComparisons
    \/ NextSession
    \/ GenerateGroupSignificance
    \/ ProcessLingressData
    \/ NextGroups
    \/ GenerateIndividualHeatmap
    \/ DownloadSheetWOptions
    \/ NextVolcano
    \/ UploadData

Spec == Init /\ [][Next]_vars
====
